---- MODULE Spec2Model ----
(***************************************************************************)
(* Model of the graph extraction pipeline of data_from_plot:               *)
(*   modules/axis_detector.py          AxisDetector                        *)
(*   modules/calibrator_ultimate.py    AxisCalibratorUltimate              *)
(*   modules/marker_detector_hybrid.py MarkerDetectorHybrid                *)
(*   modules/exporter.py               DataExporter.visualize              *)
(*   modules/graph_extractor_ultimate.py GraphExtractorUltimate            *)
(*                                                                         *)
(* Pixel coordinates are integers.  Python floats are modelled by exact    *)
(* rationals [n |-> numerator, d |-> denominator > 0].  What OpenCV and    *)
(* Tesseract answer for an image is an input: the Hough segments, the      *)
(* numeric tokens each OCR attempt reads (or the exception it raises) and  *)
(* the candidate points of the marker and curve layers.                    *)
(***************************************************************************)
EXTENDS Integers, Sequences, FiniteSets, TLC

VARIABLES
    \* GraphExtractorUltimate: the image (read-only) and the object's fields
    img, frame, x_calibration, y_calibration, data_points,
    \* position inside process(), the stages the current/last process() ran,
    \* the pixel candidates behind data_points, and the last finished call
    pc, stages, separated, last_call,
    \* one call of a component function: its name, its argument, its result
    op, arg, res

vars == <<img, frame, x_calibration, y_calibration, data_points,
          pc, stages, separated, last_call, op, arg, res>>

extractor_vars == <<img, frame, x_calibration, y_calibration, data_points,
                    pc, stages, separated, last_call>>

call_vars == <<op, arg, res>>

(***************************************************************************)
(* Bounds of the model                                                     *)
(***************************************************************************)
\* image width and height in pixels
ImgW == 100
ImgH == 100
\* longest list of Hough segments handed to detect_axes
MaxLines == 3
\* longest list of axes handed to find_frame
MaxAxes == 4
\* most preprocessing variants one number extraction goes through
MaxVariants == 2
\* pixel positions tried along each side of a frame
MapSteps == 5
\* most marker detections and most curve samples in one image
MaxMarkers == 2
MaxCurves == 1
\* longest list of candidates handed to the deduplication
MaxCandidates == 3
\* largest side of a region scanned by the curve grid, largest grid size, and
\* most pixels of it that are not white or gray
MaxRoi == 3
MaxGrid == 3
MaxColoured == 2

(***************************************************************************)
(* Helpers                                                                 *)
(***************************************************************************)
None == [kind |-> "None"]

Abs(i) == IF i < 0 THEN -i ELSE i
Min2(a, b) == IF a <= b THEN a ELSE b
Max2(a, b) == IF a >= b THEN a ELSE b

Range(s) == {s[i] : i \in DOMAIN s}

SeqsUpTo(S, n) == UNION {[1..k -> S] : k \in 0..n}

\* Python's list.sort(key=...) / sorted(): stable, ascending by key k[element]
RECURSIVE InsertStable(_, _, _)
InsertStable(sorted, a, k) ==
    IF sorted = <<>> THEN <<a>>
    ELSE IF k[Head(sorted)] <= k[a]
         THEN <<Head(sorted)>> \o InsertStable(Tail(sorted), a, k)
         ELSE <<a>> \o sorted

RECURSIVE SortStable(_, _)
SortStable(s, k) ==
    IF s = <<>> THEN <<>>
    ELSE InsertStable(SortStable(SubSeq(s, 1, Len(s) - 1), k), s[Len(s)], k)

\* int(0.9 * v) and int(0.1 * v) for a pixel size v >= 0
Int09(v) == (9 * v) \div 10
Int01(v) == v \div 10

(***************************************************************************)
(* data_types.py                                                           *)
(***************************************************************************)
GraphAxis(x1, y1, x2, y2, is_horizontal) ==
    [x1 |-> x1, y1 |-> y1, x2 |-> x2, y2 |-> y2, is_horizontal |-> is_horizontal]

\* GraphAxis.length() squared (lengths are only ever compared)
length2(a) == (a.x2 - a.x1) * (a.x2 - a.x1) + (a.y2 - a.y1) * (a.y2 - a.y1)

GraphFrame(top_left, top_right, bottom_left, bottom_right, width, height) ==
    [kind |-> "Frame", top_left |-> top_left, top_right |-> top_right,
     bottom_left |-> bottom_left, bottom_right |-> bottom_right,
     width |-> width, height |-> height]

(***************************************************************************)
(* axis_detector.py                                                        *)
(***************************************************************************)
\* a Hough segment line[0] = (x1, y1, x2, y2)
Line(x1, y1, x2, y2) == [x1 |-> x1, y1 |-> y1, x2 |-> x2, y2 |-> y2]

\* abs(degrees(arctan2(dy, dx))) < 5 or > 175: |dy| < tan(5 deg) * |dx|,
\* tan(5 deg) = 0.0874886...; arctan2(0, 0) = 0
AngleHorizontal(dx, dy) ==
    \/ Abs(dy) * 10000000 < 874887 * Abs(dx)
    \/ (dx = 0 /\ dy = 0)

\* 85 < abs(degrees(arctan2(dy, dx))) < 95: |dx| < tan(5 deg) * |dy|
AngleVertical(dx, dy) == Abs(dx) * 10000000 < 874887 * Abs(dy)

\* the category _categorize_lines gives one segment: "h", "v" or "drop"
LineCategory(l, w, h) ==
    LET dx == l.x2 - l.x1
        dy == l.y2 - l.y1
        len2 == dx * dx + dy * dy
    IN  IF AngleHorizontal(dx, dy) /\ 4 * len2 > w * w THEN "h"
        ELSE IF AngleVertical(dx, dy) /\ 4 * len2 > h * h THEN "v"
        ELSE "drop"

RECURSIVE CategorizedAs(_, _, _, _)
CategorizedAs(lines, cat, w, h) ==
    IF lines = <<>> THEN <<>>
    ELSE LET l == Head(lines)
             rest == CategorizedAs(Tail(lines), cat, w, h)
         IN  IF LineCategory(l, w, h) = cat
             THEN <<GraphAxis(l.x1, l.y1, l.x2, l.y2, cat = "h")>> \o rest
             ELSE rest

\* _categorize_lines: (h_lines, v_lines)
categorize_lines(lines, w, h) ==
    [h_lines |-> CategorizedAs(lines, "h", w, h),
     v_lines |-> CategorizedAs(lines, "v", w, h)]

\* twice the centre position the merge sorts and compares by
Centre2(a, is_horizontal) == IF is_horizontal THEN a.y1 + a.y2 ELSE a.x1 + a.x2

RECURSIVE MergeLoop(_, _, _, _)
MergeLoop(merged, rest, is_horizontal, threshold) ==
    IF rest = <<>> THEN merged
    ELSE LET axis == Head(rest)
             last == merged[Len(merged)]
             dist2 == Abs(Centre2(axis, is_horizontal) - Centre2(last, is_horizontal))
         IN  IF dist2 < 2 * threshold
             THEN IF length2(axis) > length2(last)
                  THEN MergeLoop([merged EXCEPT ![Len(merged)] = axis],
                                 Tail(rest), is_horizontal, threshold)
                  ELSE MergeLoop(merged, Tail(rest), is_horizontal, threshold)
             ELSE MergeLoop(Append(merged, axis), Tail(rest), is_horizontal, threshold)

\* a merge that sorts the axes by position and merges nothing
merge_similar_axes_sort_only(axes, is_horizontal, threshold) ==
    SortStable(axes, [a \in Range(axes) |-> Centre2(a, is_horizontal)])

merge_similar_axes(axes, is_horizontal, threshold) ==
    IF axes = <<>> THEN <<>>
    ELSE LET sorted == SortStable(axes,
                          [a \in Range(axes) |-> Centre2(a, is_horizontal)])
         IN  MergeLoop(<<sorted[1]>>, Tail(sorted), is_horizontal, threshold)

use_image_borders(w, h) ==
    LET margin == Int01(Min2(h, w))
    IN  <<GraphAxis(margin, h - margin, w - margin, h - margin, TRUE),
          GraphAxis(margin, margin, margin, h - margin, FALSE)>>

\* detect_axes on the segments the three Hough strategies found, in order
detect_axes(all_lines, w, h) ==
    IF all_lines = <<>> THEN use_image_borders(w, h)
    ELSE LET c == categorize_lines(all_lines, w, h)
         IN  merge_similar_axes(c.h_lines, TRUE, 10)
             \o merge_similar_axes(c.v_lines, FALSE, 10)

\* find_frame without its partial-frame branch
find_frame_full_only(axes, w, h) ==
    LET h_axes == SelectSeq(axes, LAMBDA a : a.is_horizontal)
        v_axes == SelectSeq(axes, LAMBDA a : ~a.is_horizontal)
    IN  IF Len(h_axes) >= 2 /\ Len(v_axes) >= 2
        THEN LET left == Min2(v_axes[1].x1, v_axes[1].x2)
                 right == Max2(v_axes[Len(v_axes)].x1, v_axes[Len(v_axes)].x2)
                 top == Min2(h_axes[1].y1, h_axes[1].y2)
                 bottom == Max2(h_axes[2].y1, h_axes[2].y2)
             IN  GraphFrame(<<left, top>>, <<right, top>>,
                            <<left, bottom>>, <<right, bottom>>,
                            right - left, bottom - top)
        ELSE None

\* find_frame taking the lowest horizontal axis as the bottom edge
find_frame_outermost(axes, w, h) ==
    LET h_axes == SelectSeq(axes, LAMBDA a : a.is_horizontal)
        v_axes == SelectSeq(axes, LAMBDA a : ~a.is_horizontal)
    IN  IF Len(h_axes) >= 2 /\ Len(v_axes) >= 2
        THEN LET hs == SortStable(h_axes, [a \in Range(h_axes) |-> Min2(a.y1, a.y2)])
                 vs == SortStable(v_axes, [a \in Range(v_axes) |-> Min2(a.x1, a.x2)])
                 left == Min2(vs[1].x1, vs[1].x2)
                 right == Max2(vs[Len(vs)].x1, vs[Len(vs)].x2)
                 top == Min2(hs[1].y1, hs[1].y2)
                 bottom == Max2(hs[Len(hs)].y1, hs[Len(hs)].y2)
             IN  GraphFrame(<<left, top>>, <<right, top>>,
                            <<left, bottom>>, <<right, bottom>>,
                            right - left, bottom - top)
        ELSE IF Len(h_axes) >= 1 /\ Len(v_axes) >= 1
        THEN LET h_ax == h_axes[Len(h_axes)]
                 v_ax == v_axes[1]
                 left == Min2(v_ax.x1, v_ax.x2)
                 bottom == Max2(h_ax.y1, h_ax.y2)
             IN  GraphFrame(<<left, Int01(h)>>, <<Int09(w), Int01(h)>>,
                            <<left, bottom>>, <<Int09(w), bottom>>,
                            Int09(w) - left, bottom - Int01(h))
        ELSE None

find_frame(axes, w, h) ==
    LET h_axes == SelectSeq(axes, LAMBDA a : a.is_horizontal)
        v_axes == SelectSeq(axes, LAMBDA a : ~a.is_horizontal)
    IN  IF Len(h_axes) >= 2 /\ Len(v_axes) >= 2
        THEN LET hs == SortStable(h_axes, [a \in Range(h_axes) |-> Min2(a.y1, a.y2)])
                 vs == SortStable(v_axes, [a \in Range(v_axes) |-> Min2(a.x1, a.x2)])
                 h_top == hs[1]
                 h_bottom == IF Len(hs) > 1 THEN hs[2] ELSE hs[1]
                 v_first == vs[1]
                 v_last == vs[Len(vs)]
                 left == Min2(v_first.x1, v_first.x2)
                 right == Max2(v_last.x1, v_last.x2)
                 top == Min2(h_top.y1, h_top.y2)
                 bottom == Max2(h_bottom.y1, h_bottom.y2)
             IN  GraphFrame(<<left, top>>, <<right, top>>,
                            <<left, bottom>>, <<right, bottom>>,
                            right - left, bottom - top)
        ELSE IF Len(h_axes) >= 1 /\ Len(v_axes) >= 1
        THEN LET h_ax == h_axes[Len(h_axes)]
                 v_ax == v_axes[1]
                 left == Min2(v_ax.x1, v_ax.x2)
                 bottom == Max2(h_ax.y1, h_ax.y2)
             IN  GraphFrame(<<left, Int01(h)>>, <<Int09(w), Int01(h)>>,
                            <<left, bottom>>, <<Int09(w), bottom>>,
                            Int09(w) - left, bottom - Int01(h))
        ELSE None

(***************************************************************************)
(* Calls of AxisDetector on bounded inputs                                 *)
(***************************************************************************)
\* pixel positions near the top/left edge, in the middle, near the bottom/right
PosLow(size) == size \div 20
PosMid(size) == size \div 2
PosHigh(size) == size - size \div 20
Positions(size) == {PosLow(size), PosMid(size), PosHigh(size)}

\* axes a detector run can hand to find_frame: long straight axes at three
\* positions, one slightly slanted axis per orientation, and the border pair
AxisCatalogue ==
    {GraphAxis(PosLow(ImgW), y, PosHigh(ImgW), y, TRUE) : y \in Positions(ImgH)}
    \cup {GraphAxis(PosHigh(ImgW), PosMid(ImgH), PosLow(ImgW), PosMid(ImgH) + 3, TRUE)}
    \cup {GraphAxis(x, PosLow(ImgH), x, PosHigh(ImgH), FALSE) : x \in Positions(ImgW)}
    \cup {GraphAxis(PosMid(ImgW) + 3, PosHigh(ImgH), PosMid(ImgW), PosLow(ImgH), FALSE)}
    \cup Range(use_image_borders(ImgW, ImgH))

\* segments HoughLinesP can report: the axes above, and segments too short or
\* too oblique to be an axis
SegmentCatalogue ==
    {Line(a.x1, a.y1, a.x2, a.y2) : a \in AxisCatalogue}
    \cup {Line(PosLow(ImgW), PosMid(ImgH), PosMid(ImgW), PosMid(ImgH)),
          Line(PosMid(ImgW), PosLow(ImgH), PosMid(ImgW), PosMid(ImgH)),
          Line(PosLow(ImgW), PosLow(ImgH), PosHigh(ImgW), PosHigh(ImgH))}

ExtractorUnused ==
    /\ img = None
    /\ frame = None
    /\ x_calibration = None
    /\ y_calibration = None
    /\ data_points = <<>>
    /\ pc = "idle"
    /\ stages = <<>>
    /\ separated = <<>>
    /\ last_call = "none"

\* a call that has not run yet: arg = [fn |-> function, in |-> its input]
Pending(fn, inputs) == {[fn |-> fn, in |-> x] : x \in inputs}

AxisInputs(max_lines, max_axes) ==
    Pending("detect_axes", SeqsUpTo(SegmentCatalogue, max_lines))
    \cup Pending("find_frame", SeqsUpTo(AxisCatalogue, max_axes))

\* detector.detect_axes() on an image whose Hough segments are arg.in
DetectAxesCall ==
    /\ op = "none"
    /\ arg.fn = "detect_axes"
    /\ op' = "detect_axes"
    /\ res' = detect_axes(arg.in, ImgW, ImgH)
    /\ UNCHANGED <<arg, extractor_vars>>

\* detector.find_frame(axes) on the list of axes arg.in
FindFrameCall ==
    /\ op = "none"
    /\ arg.fn = "find_frame"
    /\ op' = "find_frame"
    /\ res' = find_frame(arg.in, ImgW, ImgH)
    /\ UNCHANGED <<arg, extractor_vars>>

\* detector.find_frame(axes) on the list detect_axes has just returned
FindFrameOfDetected ==
    /\ op = "detect_axes"
    /\ op' = "find_frame_of_detected"
    /\ res' = [axes |-> res, frame |-> find_frame(res, ImgW, ImgH)]
    /\ UNCHANGED <<arg, extractor_vars>>

InitAxis ==
    /\ ExtractorUnused
    /\ op = "none"
    /\ arg \in AxisInputs(MaxLines, MaxAxes)
    /\ res = None

NextAxis == DetectAxesCall \/ FindFrameCall \/ FindFrameOfDetected

SpecAxis == InitAxis /\ [][NextAxis]_vars

(***************************************************************************)
(* Claims about AxisDetector (checked under SpecAxis)                      *)
(***************************************************************************)
HasHorizontal(axes) == \E i \in DOMAIN axes : axes[i].is_horizontal
HasVertical(axes) == \E i \in DOMAIN axes : ~axes[i].is_horizontal

NoneSurvives(lines) ==
    \A i \in DOMAIN lines : LineCategory(lines[i], ImgW, ImgH) = "drop"

\* C3: when no segment found by the line detection survives the
\* horizontal/vertical classification, detect_axes returns the image-border
\* pair, and find_frame on detect_axes' result always returns a frame.
C3_BorderFallback ==
    /\ (op = "detect_axes" /\ NoneSurvives(arg.in))
          => res = use_image_borders(ImgW, ImgH)
    /\ op = "find_frame_of_detected" => res.frame # None

\* C4: find_frame returns no frame exactly when its axis list has no
\* horizontal axis or no vertical axis.
C4_NoFrameIffOrientationMissing ==
    /\ op = "find_frame"
          => ((res = None) <=> (~HasHorizontal(arg.in) \/ ~HasVertical(arg.in)))
    /\ op = "find_frame_of_detected"
          => ((res.frame = None)
                 <=> (~HasHorizontal(res.axes) \/ ~HasVertical(res.axes)))

\* find_frame was given axes of one orientation only and returned no frame
C4_Witness ==
    /\ op = "find_frame"
    /\ Len(arg.in) >= 2
    /\ res = None

\* C5: every frame find_frame returns has width > 0 and height > 0.
C5_FramePositive ==
    /\ (op = "find_frame" /\ res # None) => (res.width > 0 /\ res.height > 0)
    /\ (op = "find_frame_of_detected" /\ res.frame # None)
          => (res.frame.width > 0 /\ res.frame.height > 0)

\* where an axis lies: its smaller y (horizontal) or smaller x (vertical), the
\* key find_frame sorts by
TopOf(a) == Min2(a.y1, a.y2)
LeftOf(a) == Min2(a.x1, a.x2)

HorizontalOf(axes) == SelectSeq(axes, LAMBDA a : a.is_horizontal)
VerticalOf(axes) == SelectSeq(axes, LAMBDA a : ~a.is_horizontal)

FullFrameCall ==
    /\ op = "find_frame"
    /\ Len(HorizontalOf(arg.in)) >= 2
    /\ Len(VerticalOf(arg.in)) >= 2

\* C25: given at least two horizontal and two vertical axes, the frame's top
\* and bottom come from the two horizontal axes closest to the image top and
\* its left and right from the left-most and the right-most vertical axis
\* (positions compared by each axis's smaller coordinate); a further
\* horizontal axis below the second one does not change the frame.
C25_FrameFromTwoTopmost ==
    FullFrameCall =>
        LET hs == HorizontalOf(arg.in)
            vs == VerticalOf(arg.in)
        IN  /\ res # None
            /\ \E i, j \in DOMAIN hs :
                  /\ i # j
                  /\ TopOf(hs[i]) <= TopOf(hs[j])
                  /\ \A k \in DOMAIN hs \ {i, j} : TopOf(hs[j]) <= TopOf(hs[k])
                  /\ res.top_left[2] = TopOf(hs[i])
                  /\ res.bottom_right[2] = Max2(hs[j].y1, hs[j].y2)
                  /\ \A x \in AxisCatalogue :
                        (x.is_horizontal /\ TopOf(x) > TopOf(hs[j]))
                            => /\ find_frame(arg.in \o <<x>>, ImgW, ImgH) = res
                               /\ find_frame(<<x>> \o arg.in, ImgW, ImgH) = res
            /\ \E a, b \in DOMAIN vs :
                  /\ \A k \in DOMAIN vs :
                        LeftOf(vs[a]) <= LeftOf(vs[k]) /\ LeftOf(vs[k]) <= LeftOf(vs[b])
                  /\ res.top_left[1] = LeftOf(vs[a])
                  /\ res.bottom_right[1] = Max2(vs[b].x1, vs[b].x2)

\* the lower horizontal axis came first and the right vertical axis before the
\* left one; the frame spans the top two axes and an axis exists below them
C25_Witness ==
    /\ FullFrameCall
    /\ Len(arg.in) = 4
    /\ TopOf(HorizontalOf(arg.in)[1]) > TopOf(HorizontalOf(arg.in)[2])
    /\ LeftOf(VerticalOf(arg.in)[1]) > LeftOf(VerticalOf(arg.in)[2])
    /\ res.top_left = <<LeftOf(VerticalOf(arg.in)[2]), TopOf(HorizontalOf(arg.in)[2])>>
    /\ res.bottom_right[2] = PosMid(ImgH)
    /\ \E x \in AxisCatalogue : x.is_horizontal /\ TopOf(x) > PosMid(ImgH)

(***************************************************************************)
(* Calls of AxisDetector._merge_similar_axes on bounded inputs             *)
(***************************************************************************)
\* longest list of segments handed to one merge
MaxSegments == 3

\* the default of the threshold parameter
MergeThreshold == 10

\* the far end of a segment that leaves PosLow at one of three lengths
SegmentEnds(size) == {PosMid(size), PosMid(size) + size \div 4, PosHigh(size)}

\* segments of one orientation: centres 8 px apart (closer than the threshold,
\* 16 px across two steps), each at three lengths, and one slanted segment
\* whose centre lies between two pixel rows/columns
MergeCatalogue(is_horizontal) ==
    IF is_horizontal
    THEN {GraphAxis(PosLow(ImgW), y, x2, y, TRUE) :
              y \in {PosMid(ImgH), PosMid(ImgH) + 8, PosMid(ImgH) + 16},
              x2 \in SegmentEnds(ImgW)}
         \cup {GraphAxis(PosLow(ImgW), PosMid(ImgH) + 25, PosHigh(ImgW),
                         PosMid(ImgH) + 28, TRUE)}
    ELSE {GraphAxis(x, PosLow(ImgH), x, y2, FALSE) :
              x \in {PosMid(ImgW), PosMid(ImgW) + 8, PosMid(ImgW) + 16},
              y2 \in SegmentEnds(ImgH)}
         \cup {GraphAxis(PosMid(ImgW) + 25, PosLow(ImgH), PosMid(ImgW) + 28,
                         PosHigh(ImgH), FALSE)}

MergeInputs(max_segments) ==
    Pending("merge_similar_axes",
            {[axes |-> axes, is_horizontal |-> o] :
                 axes \in SeqsUpTo(MergeCatalogue(TRUE), max_segments),
                 o \in {TRUE}}
            \cup {[axes |-> axes, is_horizontal |-> o] :
                 axes \in SeqsUpTo(MergeCatalogue(FALSE), max_segments),
                 o \in {FALSE}})

\* detector._merge_similar_axes(axes, is_horizontal) on the list arg.in.axes
MergeCall ==
    /\ op = "none"
    /\ arg.fn = "merge_similar_axes"
    /\ op' = "merge_similar_axes"
    /\ res' = merge_similar_axes(arg.in.axes, arg.in.is_horizontal, MergeThreshold)
    /\ UNCHANGED <<arg, extractor_vars>>

InitMerge ==
    /\ ExtractorUnused
    /\ op = "none"
    /\ arg \in MergeInputs(MaxSegments)
    /\ res = None

NextMerge == MergeCall

SpecMerge == InitMerge /\ [][NextMerge]_vars

(***************************************************************************)
(* Claims about _merge_similar_axes (checked under SpecMerge)              *)
(***************************************************************************)
\* the list in the order the merge loop takes it
SortedAxes(axes, is_horizontal) ==
    SortStable(axes, [a \in Range(axes) |-> Centre2(a, is_horizontal)])

\* what the merge loop holds after taking the first k segments: the loop
\* never looks ahead, so this is the merge of the first k segments alone
MergedAfter(axes, is_horizontal, k) ==
    merge_similar_axes(SubSeq(SortedAxes(axes, is_horizontal), 1, k),
                       is_horizontal, MergeThreshold)

\* the index of the output segment the k-th segment was merged into
\* (merged[-1] when the loop took it)
MergedInto(axes, is_horizontal, k) == Len(MergedAfter(axes, is_horizontal, k))

\* centres differ by less than the threshold
CloseAxes(a, b, is_horizontal) ==
    Abs(Centre2(a, is_horizontal) - Centre2(b, is_horizontal)) < 2 * MergeThreshold

\* C13 as stated: any two segments whose centres differ by less than the
\* threshold are collapsed into one output segment, which is at least as
\* long as both.
C13_MergeByDistance ==
    op = "merge_similar_axes" =>
        LET h == arg.in.is_horizontal
            sorted == SortedAxes(arg.in.axes, h)
        IN  \A i, j \in DOMAIN sorted :
                CloseAxes(sorted[i], sorted[j], h)
                => /\ MergedInto(arg.in.axes, h, i) = MergedInto(arg.in.axes, h, j)
                   /\ length2(res[MergedInto(arg.in.axes, h, i)]) >= length2(sorted[i])
                   /\ length2(res[MergedInto(arg.in.axes, h, i)]) >= length2(sorted[j])

\* C13 (amended): the segments are taken in order of centre position; a
\* segment is merged into the last output segment exactly when its centre is
\* less than the threshold from the segment kept there at that moment, and
\* starts a new output segment otherwise.  Every output segment is an input
\* segment and the longest of those merged into it, output segments are in
\* order of position and never closer than the threshold, and two segments
\* alone that are closer than the threshold collapse into the longer.
C13_MergeByLastKept ==
    op = "merge_similar_axes" =>
        LET h == arg.in.is_horizontal
            axes == arg.in.axes
            sorted == SortedAxes(axes, h)
            kept(k) == MergedAfter(axes, h, k)[MergedInto(axes, h, k)]
        IN  /\ (axes = <<>>) <=> (res = <<>>)
            /\ \A k \in DOMAIN res : res[k] \in Range(axes)
            /\ \A k \in DOMAIN res :
                   k > 1 => Centre2(res[k], h) - Centre2(res[k - 1], h)
                               >= 2 * MergeThreshold
            /\ \A i \in DOMAIN sorted :
                   /\ MergedInto(axes, h, i) \in DOMAIN res
                   /\ length2(res[MergedInto(axes, h, i)]) >= length2(sorted[i])
            /\ \A j \in DOMAIN sorted :
                   j > 1 => ((MergedInto(axes, h, j) = MergedInto(axes, h, j - 1))
                               <=> CloseAxes(sorted[j], kept(j - 1), h))
            /\ (Len(axes) = 2 /\ CloseAxes(axes[1], axes[2], h))
                   => /\ Len(res) = 1
                      /\ length2(res[1]) = Max2(length2(axes[1]), length2(axes[2]))

\* a short segment was absorbed into the longer segment before it, and the
\* segment after it, closer than the threshold to the short one, was kept
\* as a second output segment
C13_Witness ==
    /\ op = "merge_similar_axes"
    /\ Len(arg.in.axes) = 3
    /\ Len(res) = 2
    /\ \E i \in DOMAIN arg.in.axes :
          /\ arg.in.axes[i] \notin Range(res)
          /\ CloseAxes(arg.in.axes[i], res[1], arg.in.is_horizontal)
          /\ CloseAxes(arg.in.axes[i], res[2], arg.in.is_horizontal)
          /\ length2(res[1]) > length2(arg.in.axes[i])

(***************************************************************************)
(* Rationals: the model of Python floats                                   *)
(***************************************************************************)
RECURSIVE Gcd(_, _)
Gcd(a, b) == IF b = 0 THEN a ELSE Gcd(b, a % b)

\* n / d in lowest terms with a positive denominator (d # 0)
Rat(n, d) ==
    LET g == Gcd(Abs(n), Abs(d))
        sgn == IF d < 0 THEN -1 ELSE 1
    IN  [n |-> sgn * (n \div g), d |-> sgn * (d \div g)]

RInt(i) == [n |-> i, d |-> 1]
RAdd(a, b) == Rat(a.n * b.d + b.n * a.d, a.d * b.d)
RSub(a, b) == Rat(a.n * b.d - b.n * a.d, a.d * b.d)
RMul(a, b) == Rat(a.n * b.n, a.d * b.d)
\* b # 0
RDiv(a, b) == Rat(a.n * b.d, a.d * b.n)
RLess(a, b) == a.n * b.d < b.n * a.d
RLeq(a, b) == a.n * b.d <= b.n * a.d

(***************************************************************************)
(* calibrator_ultimate.py                                                  *)
(***************************************************************************)
AxisCalibration(min_value, max_value, zero_position, is_symmetric) ==
    [kind |-> "AxisCalibration", min_value |-> min_value, max_value |-> max_value,
     zero_position |-> zero_position, is_symmetric |-> is_symmetric]

\* AxisCalibration(0.0, 1.0)
DefaultCalibration == AxisCalibration(0, 1, None, FALSE)

\* an exception leaving the function
Raised == [kind |-> "raise"]

\* len(seq[start:stop]) for a sequence of n elements
SliceLen(start, stop, n) ==
    LET norm(i) == IF i < 0 THEN Max2(i + n, 0) ELSE Min2(i, n)
    IN  Max2(norm(stop) - norm(start), 0)

\* sorted(set(numbers))
RECURSIVE SortedSeqOf(_)
SortedSeqOf(S) ==
    IF S = {} THEN <<>>
    ELSE LET m == CHOOSE x \in S : \A y \in S : x <= y
         IN  <<m>> \o SortedSeqOf(S \ {m})

sorted_set(numbers) == SortedSeqOf(Range(numbers))

\* 4 * np.percentile(numbers, 25 * quarter) of a non-empty list: the value at
\* position quarter * (n - 1) / 4 of the sorted list, by linear interpolation
Percentile4(numbers, quarter) ==
    LET ordered == SortStable(numbers, [n \in Range(numbers) |-> n])
        pos == quarter * (Len(ordered) - 1)
        lo == pos \div 4
        r == pos % 4
    IN  IF r = 0 THEN 4 * ordered[lo + 1]
        ELSE 4 * ordered[lo + 1] + r * (ordered[lo + 2] - ordered[lo + 1])

\* an outlier filter whose fences lie one IQR beyond the quartiles
remove_outliers_narrow_fence(numbers) ==
    IF Len(numbers) < 4 THEN numbers
    ELSE LET q1 == Percentile4(numbers, 1)
             q3 == Percentile4(numbers, 3)
             iqr == q3 - q1
             lower == q1 - iqr
             upper == q3 + iqr
             filtered == SelectSeq(numbers, LAMBDA n : lower <= 4 * n /\ 4 * n <= upper)
         IN  IF filtered # <<>> THEN filtered ELSE numbers

remove_outliers(numbers) ==
    IF Len(numbers) < 4 THEN numbers
    ELSE LET q1 == Percentile4(numbers, 1)
             q3 == Percentile4(numbers, 3)
             iqr == q3 - q1
             lower == q1 - 3 * iqr
             upper == q3 + 3 * iqr
             filtered == SelectSeq(numbers, LAMBDA n : lower <= 4 * n /\ 4 * n <= upper)
         IN  IF filtered # <<>> THEN filtered ELSE numbers

\* _parse_numbers on the values of the regex matches of one recognised text:
\* a match is kept when -10000 < num < 100000
parse_numbers(matches) == SelectSeq(matches, LAMBDA num : -10000 < num /\ num < 100000)

\* what one Tesseract call does: it raises, or returns a text whose matches are given
TextRead(matches) == [kind |-> "text", matches |-> matches]

RECURSIVE ConfigLoop(_)
ConfigLoop(configs) ==
    IF configs = <<>> THEN <<>>
    ELSE IF Head(configs).kind = "raise"
         THEN ConfigLoop(Tail(configs))
         ELSE parse_numbers(Head(configs).matches) \o ConfigLoop(Tail(configs))

\* _ocr_image on one image variant: a failing conversion/resize returns [],
\* a failing Tesseract config is skipped
ocr_image(variant) ==
    IF variant.convert = "raise" THEN <<>> ELSE ConfigLoop(variant.configs)

\* the preprocessing + OCR attempts of _extract_numbers_ultimate, in order; the
\* preprocessing of a variant (cv2.threshold, cv2.adaptiveThreshold,
\* _enhance_contrast, cv2.morphologyEx) runs outside any try block
RECURSIVE VariantLoop(_, _)
VariantLoop(run, all_numbers) ==
    IF run = <<>> THEN [kind |-> "ok", numbers |-> all_numbers]
    ELSE IF Head(run).pre = "raise" THEN Raised
    ELSE VariantLoop(Tail(run), all_numbers \o ocr_image(Head(run)))

extract_numbers_ultimate(rows, cols, run) ==
    IF rows * cols = 0 \/ rows < 10 \/ cols < 10
    THEN [kind |-> "ok", numbers |-> <<>>]
    ELSE LET got == VariantLoop(run, <<>>)
         IN  IF got.kind = "raise" THEN Raised
             ELSE LET unique == sorted_set(got.numbers)
                  IN  [kind |-> "ok",
                       numbers |-> IF Len(unique) > 4 THEN remove_outliers(unique)
                                   ELSE unique]

\* zero_pos with the ratio inverted
zero_position_inverted(numbers, min_val, max_val, is_symmetric) ==
    IF (\E i \in DOMAIN numbers : numbers[i] = 0) \/ is_symmetric
    THEN IF min_val < 0 /\ 0 < max_val THEN Rat(max_val - min_val, Abs(min_val))
         ELSE IF is_symmetric THEN Rat(1, 2)
         ELSE None
    ELSE None

\* zero_pos that is the centre whenever 0 itself was not read
zero_position_centred(numbers, min_val, max_val, is_symmetric) ==
    IF \E i \in DOMAIN numbers : numbers[i] = 0
    THEN IF min_val < 0 /\ 0 < max_val THEN Rat(Abs(min_val), max_val - min_val)
         ELSE None
    ELSE IF is_symmetric THEN Rat(1, 2)
    ELSE None

\* zero_pos of calibrate_x_axis
zero_position_of(numbers, min_val, max_val, is_symmetric) ==
    IF (\E i \in DOMAIN numbers : numbers[i] = 0) \/ is_symmetric
    THEN IF min_val < 0 /\ 0 < max_val THEN Rat(Abs(min_val), max_val - min_val)
         ELSE IF is_symmetric THEN Rat(1, 2)
         ELSE None
    ELSE None

calibrate_x_axis(f, w, h, run) ==
    LET x1 == f.bottom_left[1]
        x2 == f.bottom_right[1]
        y2 == f.bottom_right[2]
        margin_v == Min2(250, h - y2)
        margin_h == 80
        rows == SliceLen(y2, Min2(y2 + margin_v, h), h)
        cols == SliceLen(Max2(0, x1 - margin_h), Min2(x2 + margin_h, w), w)
    IN  IF rows * cols = 0 THEN DefaultCalibration
        ELSE LET got == extract_numbers_ultimate(rows, cols, run)
             IN  IF got.kind = "raise" THEN Raised
                 ELSE IF Len(got.numbers) >= 2
                 THEN LET numbers == sorted_set(got.numbers)
                          min_val == numbers[1]
                          max_val == numbers[Len(numbers)]
                          has_negative == \E i \in DOMAIN numbers : numbers[i] < 0
                          has_positive == \E i \in DOMAIN numbers : numbers[i] > 0
                          is_symmetric == has_negative /\ has_positive
                      IN  AxisCalibration(min_val, max_val,
                              zero_position_of(numbers, min_val, max_val, is_symmetric),
                              is_symmetric)
                 ELSE DefaultCalibration

calibrate_y_axis(f, w, h, run) ==
    LET x1 == f.top_left[1]
        y1 == f.top_left[2]
        y2 == f.bottom_left[2]
        margin_h == Min2(300, x1)
        margin_v == 50
        rows == SliceLen(Max2(0, y1 - margin_v), Min2(y2 + margin_v, h), h)
        cols == SliceLen(Max2(0, x1 - margin_h), x1, w)
    IN  IF rows * cols = 0 THEN DefaultCalibration
        ELSE LET got == extract_numbers_ultimate(rows, cols, run)
             IN  IF got.kind = "raise" THEN Raised
                 ELSE LET kept == SelectSeq(got.numbers, LAMBDA n : 0 <= n /\ n <= 200)
                      IN  IF Len(kept) >= 2
                          THEN LET numbers == sorted_set(kept)
                               IN  AxisCalibration(numbers[1], numbers[Len(numbers)],
                                                   None, FALSE)
                          ELSE DefaultCalibration

(***************************************************************************)
(* Calls of AxisCalibratorUltimate on bounded inputs                       *)
(***************************************************************************)
\* the Tesseract configs _ocr_image tries on every variant
NumConfigs == 3

\* regex matches of one recognised text: a symmetric range; a range from 0
\* with a value above the Y filter and one outside the sanity range
Readings == {<<-30, 10>>, <<0, 5, 250, -20000>>}

ConfigOutcomes == {Raised} \cup {TextRead(m) : m \in Readings}

\* one variant: its preprocessing raises, or the conversion inside _ocr_image
\* raises, or each Tesseract config raises or reads a text
VariantOutcomes ==
    {[pre |-> "raise", convert |-> "ok", configs |-> <<>>],
     [pre |-> "ok", convert |-> "raise", configs |-> <<>>]}
    \cup {[pre |-> "ok", convert |-> "ok", configs |-> c] :
             c \in [1..NumConfigs -> ConfigOutcomes]}

\* the variants of one extraction, in order, up to max_variants of them
OcrRuns(max_variants) == SeqsUpTo(VariantOutcomes, max_variants)

\* a frame with room for labels below and to the left, and a frame whose
\* vertical axis is the image's first column and whose bottom is near the edge
FrameAt(left, top, right, bottom) ==
    GraphFrame(<<left, top>>, <<right, top>>, <<left, bottom>>, <<right, bottom>>,
               right - left, bottom - top)

RoomyFrame == FrameAt(PosMid(ImgW), PosLow(ImgH), PosHigh(ImgW), PosMid(ImgH))
CrampedFrame == FrameAt(0, PosLow(ImgH), PosHigh(ImgW), PosHigh(ImgH))

\* every run on the roomy frame; on the cramped frame, whose label regions are
\* empty or under 10 pixels, the OCR is never consulted: runs of one variant
CalibInputs(max_variants) ==
    LET ins == {[frame |-> RoomyFrame, run |-> r] : r \in OcrRuns(max_variants)}
               \cup {[frame |-> CrampedFrame, run |-> r] :
                        r \in SeqsUpTo(VariantOutcomes, 1)}
    IN  Pending("calibrate_x_axis", ins) \cup Pending("calibrate_y_axis", ins)

CalibrateXCall ==
    /\ op = "none"
    /\ arg.fn = "calibrate_x_axis"
    /\ op' = "calibrate_x_axis"
    /\ res' = calibrate_x_axis(arg.in.frame, ImgW, ImgH, arg.in.run)
    /\ UNCHANGED <<arg, extractor_vars>>

CalibrateYCall ==
    /\ op = "none"
    /\ arg.fn = "calibrate_y_axis"
    /\ op' = "calibrate_y_axis"
    /\ res' = calibrate_y_axis(arg.in.frame, ImgW, ImgH, arg.in.run)
    /\ UNCHANGED <<arg, extractor_vars>>

InitCalib ==
    /\ ExtractorUnused
    /\ op = "none"
    /\ arg \in CalibInputs(MaxVariants)
    /\ res = None

NextCalib == CalibrateXCall \/ CalibrateYCall

SpecCalib == InitCalib /\ [][NextCalib]_vars

(***************************************************************************)
(* Claims about AxisCalibratorUltimate (checked under SpecCalib)           *)
(***************************************************************************)
CalibrateReturned == op \in {"calibrate_x_axis", "calibrate_y_axis"}

PreprocessingFails(run) == \E i \in DOMAIN run : run[i].pre = "raise"

\* every Tesseract call of the run raises (or is never reached)
EveryOcrRaises(run) ==
    \A i \in DOMAIN run :
        \/ run[i].pre = "raise"
        \/ run[i].convert = "raise"
        \/ \A j \in DOMAIN run[i].configs : run[i].configs[j].kind = "raise"

\* the run with every failed attempt replaced by an attempt that read nothing
SilentVariant ==
    [pre |-> "ok", convert |-> "ok", configs |-> [j \in 1..NumConfigs |-> TextRead(<<>>)]]

Silenced(run) ==
    [i \in DOMAIN run |->
        IF run[i].pre = "raise" \/ run[i].convert = "raise" THEN SilentVariant
        ELSE [run[i] EXCEPT !.configs =
                 [j \in DOMAIN run[i].configs |->
                     IF run[i].configs[j].kind = "raise" THEN TextRead(<<>>)
                     ELSE run[i].configs[j]]]]

\* C6: calibrate_x_axis and calibrate_y_axis never propagate an exception;
\* when an internal step fails or every OCR attempt raises they return the
\* default calibration [0, 1] with no zero_position.
C6_CalibrationNeverRaises ==
    CalibrateReturned =>
        /\ res.kind # "raise"
        /\ (PreprocessingFails(arg.in.run) \/ EveryOcrRaises(arg.in.run))
              => res = DefaultCalibration

\* C7: a raised exception in any single OCR attempt or preprocessing variant
\* neither aborts the calibration nor changes what the other attempts
\* contribute: the result is that of the same run with the failed attempts
\* reading nothing.
C7_FailuresAreIsolated ==
    /\ op = "calibrate_x_axis"
          => res = calibrate_x_axis(arg.in.frame, ImgW, ImgH, Silenced(arg.in.run))
    /\ op = "calibrate_y_axis"
          => res = calibrate_y_axis(arg.in.frame, ImgW, ImgH, Silenced(arg.in.run))

\* C8: every returned AxisCalibration has min_value <= max_value, and its
\* zero_position, when present, lies in [0, 1].
C8_CalibrationWellFormed ==
    (CalibrateReturned /\ res.kind = "AxisCalibration") =>
        /\ res.min_value <= res.max_value
        /\ res.zero_position # None
              => (RLeq(RInt(0), res.zero_position) /\ RLeq(res.zero_position, RInt(1)))

\* calibrate_x_axis returned a measured range with a zero position
C8_Witness ==
    /\ op = "calibrate_x_axis"
    /\ res.kind = "AxisCalibration"
    /\ res.zero_position # None
    /\ res.min_value < 0

\* the numbers _extract_numbers_ultimate hands to the calibration when the
\* label region is large enough and no preprocessing step raises
Recognised(run) ==
    LET got == VariantLoop(run, <<>>)
        unique == sorted_set(got.numbers)
    IN  IF got.kind = "raise" THEN <<>>
        ELSE IF Len(unique) > 4 THEN remove_outliers(unique) ELSE unique

ZeroRecognised(run) == 0 \in Range(Recognised(run))

SymmetricRead(run) ==
    /\ \E n \in Range(Recognised(run)) : n < 0
    /\ \E n \in Range(Recognised(run)) : n > 0

\* calibrate_x_axis returned a range measured on the frame with room for labels
MeasuredX ==
    /\ op = "calibrate_x_axis"
    /\ arg.in.frame = RoomyFrame
    /\ res.kind = "AxisCalibration"
    /\ Len(Recognised(arg.in.run)) >= 2

\* C22: calibrate_x_axis sets zero_position only when 0 is among the
\* recognised numbers or the axis is symmetric; with min < 0 < max and 0
\* recognised it is |min| / (max - min); on a symmetric axis where 0 itself
\* was not recognised it is 0.5.
C22_ZeroPositionRule ==
    MeasuredX =>
        /\ res.zero_position # None
              => (ZeroRecognised(arg.in.run) \/ SymmetricRead(arg.in.run))
        /\ (res.min_value < 0 /\ 0 < res.max_value /\ ZeroRecognised(arg.in.run))
              => res.zero_position
                    = Rat(Abs(res.min_value), res.max_value - res.min_value)
        /\ (SymmetricRead(arg.in.run) /\ ~ZeroRecognised(arg.in.run))
              => res.zero_position = Rat(1, 2)

\* C22 (amended): calibrate_x_axis sets zero_position exactly when the axis
\* is symmetric, and then to |min| / (max - min) whether or not 0 itself was
\* recognised; the value 0.5 is produced only when |min| = max.
C22_SymmetricUsesRatio ==
    MeasuredX =>
        /\ res.zero_position # None
              => (ZeroRecognised(arg.in.run) \/ SymmetricRead(arg.in.run))
        /\ SymmetricRead(arg.in.run)
              => res.zero_position
                    = Rat(Abs(res.min_value), res.max_value - res.min_value)
        /\ ~SymmetricRead(arg.in.run) => res.zero_position = None

\* -30 and 10 were read without a 0 between them: zero_position is 3/4
C22_Witness ==
    /\ MeasuredX
    /\ SymmetricRead(arg.in.run)
    /\ ~ZeroRecognised(arg.in.run)
    /\ res.min_value = -30
    /\ res.max_value = 10
    /\ res.zero_position = Rat(3, 4)

(***************************************************************************)
(* Calls of AxisCalibratorUltimate._remove_outliers on bounded inputs      *)
(***************************************************************************)
\* longest list of numbers handed to one filter call
MaxNumbers == 5

\* numbers an OCR run can read: a run of small values and far values on
\* either side of it
NumberCatalogue == {-40, 1, 2, 3, 4, 100}

OutlierInputs(max_numbers) ==
    Pending("remove_outliers", SeqsUpTo(NumberCatalogue, max_numbers))

\* calibrator._remove_outliers(numbers) on the list arg.in
RemoveOutliersCall ==
    /\ op = "none"
    /\ arg.fn = "remove_outliers"
    /\ op' = "remove_outliers"
    /\ res' = remove_outliers(arg.in)
    /\ UNCHANGED <<arg, extractor_vars>>

InitOutliers ==
    /\ ExtractorUnused
    /\ op = "none"
    /\ arg \in OutlierInputs(MaxNumbers)
    /\ res = None

NextOutliers == RemoveOutliersCall

SpecOutliers == InitOutliers /\ [][NextOutliers]_vars

(***************************************************************************)
(* Claims about _remove_outliers (checked under SpecOutliers)              *)
(***************************************************************************)
\* n lies inside [Q1 - 3 IQR, Q3 + 3 IQR] of the non-empty list numbers
InsideFence(n, numbers) ==
    LET q1 == Percentile4(numbers, 1)
        q3 == Percentile4(numbers, 3)
    IN  /\ q1 - 3 * (q3 - q1) <= 4 * n
        /\ 4 * n <= q3 + 3 * (q3 - q1)

\* how many times v occurs in the list s
Occurrences(v, s) == Cardinality({i \in DOMAIN s : s[i] = v})

\* C14: _remove_outliers keeps exactly the input values lying inside
\* [Q1 - 3 IQR, Q3 + 3 IQR] of the input, each as often as it occurs and in
\* the input's order; on 1, 2, 3, 4, 100 it keeps 1, 2, 3, 4; and a
\* non-empty input gives a non-empty result.
C14_OutliersOutsideFence ==
    op = "remove_outliers" =>
        /\ (arg.in = <<>>) <=> (res = <<>>)
        /\ arg.in # <<>> =>
              /\ \A v \in NumberCatalogue :
                    Occurrences(v, res) = IF InsideFence(v, arg.in)
                                          THEN Occurrences(v, arg.in) ELSE 0
              /\ \A i, j \in DOMAIN res :
                    i < j => \E a, b \in DOMAIN arg.in :
                                 a < b /\ arg.in[a] = res[i] /\ arg.in[b] = res[j]
        /\ arg.in = <<1, 2, 3, 4, 100>> => res = <<1, 2, 3, 4>>
        /\ (Len(arg.in) = 5 /\ Range(arg.in) = {1, 2, 3, 4, 100})
              => Range(res) = {1, 2, 3, 4}

\* the filter dropped the far value of 1, 2, 3, 4, 100
C14_Witness ==
    /\ op = "remove_outliers"
    /\ arg.in = <<1, 2, 3, 4, 100>>
    /\ res = <<1, 2, 3, 4>>

(***************************************************************************)
(* marker_detector_hybrid.py: coordinate mapping, colour classes, grouping *)
(***************************************************************************)
Point(x, y, color, marker_type) ==
    [x |-> x, y |-> y, color |-> color, marker_type |-> marker_type]

Max3(a, b, c) == Max2(a, Max2(b, c))
Min3(a, b, c) == Min2(a, Min2(b, c))

\* _pixel_to_real_x: normalized_x a rational, calib an AxisCalibration
pixel_to_real_x(normalized_x, calib) ==
    IF calib.zero_position # None
    THEN IF RLess(normalized_x, calib.zero_position)
         THEN RMul(RInt(calib.min_value), RDiv(normalized_x, calib.zero_position))
         ELSE RMul(RInt(calib.max_value),
                   RDiv(RSub(normalized_x, calib.zero_position),
                        RSub(RInt(1), calib.zero_position)))
    ELSE RAdd(RInt(calib.min_value),
              RMul(normalized_x, RInt(calib.max_value - calib.min_value)))

\* _pixel_to_real_y
pixel_to_real_y(normalized_y, calib) ==
    RAdd(RInt(calib.min_value),
         RMul(normalized_y, RInt(calib.max_value - calib.min_value)))

\* the normalisation of _group_by_color: graph_x and graph_y of a pixel
graph_x(marker, f) == Rat(marker.x - f.bottom_left[1], f.width)
graph_y(marker, f) == RSub(RInt(1), Rat(marker.y - f.top_left[2], f.height))

\* _get_color_key without its last line, the default for ties between channels
get_color_key_no_default(rgb) ==
    LET r == rgb[1]
        g == rgb[2]
        b == rgb[3]
        max_val == Max3(r, g, b)
        min_val == Min3(r, g, b)
        sat_above_03 == max_val > 0 /\ 10 * (max_val - min_val) > 3 * max_val
        sat_below_02 == max_val = 0 \/ 5 * (max_val - min_val) < max_val
    IN  IF max_val < 80 THEN "Black"
        ELSE IF sat_above_03 /\ r = max_val /\ r > 130
             THEN IF g > 100 /\ b < 100 THEN "Orange" ELSE "Red"
        ELSE IF sat_above_03 /\ b = max_val /\ b > 130 THEN "Blue"
        ELSE IF sat_above_03 /\ g = max_val /\ g > 130
             THEN IF r > 100 /\ b < 100 THEN "Yellow" ELSE "Green"
        ELSE IF 80 <= max_val /\ max_val <= 150 /\ sat_below_02 THEN "Black"
        ELSE IF r > Max2(g, b) THEN "Red"
        ELSE IF b > Max2(r, g) THEN "Blue"
        ELSE IF g > Max2(r, b) THEN "Green"
        ELSE "None"

\* _get_color_key; saturation = (max - min) / max compared by cross-multiplying
get_color_key(rgb) ==
    LET r == rgb[1]
        g == rgb[2]
        b == rgb[3]
        max_val == Max3(r, g, b)
        min_val == Min3(r, g, b)
        sat_above_03 == max_val > 0 /\ 10 * (max_val - min_val) > 3 * max_val
        sat_below_02 == max_val = 0 \/ 5 * (max_val - min_val) < max_val
    IN  IF max_val < 80 THEN "Black"
        ELSE IF sat_above_03 /\ r = max_val /\ r > 130
             THEN IF g > 100 /\ b < 100 THEN "Orange" ELSE "Red"
        ELSE IF sat_above_03 /\ b = max_val /\ b > 130 THEN "Blue"
        ELSE IF sat_above_03 /\ g = max_val /\ g > 130
             THEN IF r > 100 /\ b < 100 THEN "Yellow" ELSE "Green"
        ELSE IF 80 <= max_val /\ max_val <= 150 /\ sat_below_02 THEN "Black"
        ELSE IF r > Max2(g, b) THEN "Red"
        ELSE IF b > Max2(r, g) THEN "Blue"
        ELSE IF g > Max2(r, b) THEN "Green"
        ELSE "Black"

\* a series key that files every marker under '<Colour>_points'
series_key_points_only(marker) == <<get_color_key(marker.color), "points">>

\* the series key f"{color_key}_line" / f"{color_key}_points" as a pair
series_key(marker) ==
    <<get_color_key(marker.color),
      IF marker.marker_type = "curve" THEN "line" ELSE "points">>

\* the dict entry _group_by_color appends for one marker
data_point(marker, f, x_calib, y_calib) ==
    [x |-> pixel_to_real_x(graph_x(marker, f), x_calib),
     y |-> pixel_to_real_y(graph_y(marker, f), y_calib),
     type |-> marker.marker_type]

RECURSIVE GroupLoop(_, _, _, _, _)
GroupLoop(markers, acc, f, x_calib, y_calib) ==
    IF markers = <<>> THEN acc
    ELSE LET m == Head(markers)
             key == series_key(m)
             pt == data_point(m, f, x_calib, y_calib)
             next == IF key \in DOMAIN acc
                     THEN [acc EXCEPT ![key] = Append(@, pt)]
                     ELSE acc @@ (key :> <<pt>>)
         IN  GroupLoop(Tail(markers), next, f, x_calib, y_calib)

\* _group_by_color: the dict series key -> list of data points
group_by_color(markers, f, x_calib, y_calib) ==
    GroupLoop(markers, <<>>, f, x_calib, y_calib)

\* neighbours only below eps
Neighbours_below(p, q, eps) ==
    (p.x - q.x) * (p.x - q.x) + (p.y - q.y) * (p.y - q.y) < eps * eps

\* DBSCAN(eps=8): two points are neighbours when their distance is <= eps
Neighbours(p, q, eps) ==
    (p.x - q.x) * (p.x - q.x) + (p.y - q.y) * (p.y - q.y) <= eps * eps

\* neighbourhood query that does not go on from the neighbours it finds
Expand_once(S, pts, eps) ==
    S \cup {j \in DOMAIN pts : \E i \in S : Neighbours(pts[i], pts[j], eps)}

\* the indices density-reachable from the index set S (min_samples = 1: every
\* point is a core point, a cluster is a connected component)
RECURSIVE Expand(_, _, _)
Expand(S, pts, eps) ==
    LET grown == S \cup {j \in DOMAIN pts :
                            \E i \in S : Neighbours(pts[i], pts[j], eps)}
    IN  IF grown = S THEN S ELSE Expand(grown, pts, eps)

\* the clusters in the order of their labels: DBSCAN labels a cluster when it
\* first meets one of its points, scanning the points in order
RECURSIVE ClustersFrom(_, _, _, _)
ClustersFrom(i, pts, eps, done) ==
    IF i > Len(pts) THEN <<>>
    ELSE IF i \in done THEN ClustersFrom(i + 1, pts, eps, done)
    ELSE LET c == Expand({i}, pts, eps)
         IN  <<c>> \o ClustersFrom(i + 1, pts, eps, done \cup c)

RECURSIVE SumOver(_, _)
SumOver(S, f) ==
    IF S = {} THEN 0
    ELSE LET i == CHOOSE x \in S : TRUE IN f[i] + SumOver(S \ {i}, f)

\* Counter(values).most_common(1)[0][0] over the members (a set of indices) of
\* a cluster: the most frequent value, the earliest one among equals
MostCommon(members, value) ==
    LET count(v) == Cardinality({i \in members : value[i] = v})
        first(v) == CHOOSE i \in members :
                       value[i] = v /\ \A j \in members : value[j] = v => i <= j
        best == CHOOSE i \in members :
                    /\ first(value[i]) = i
                    /\ \A j \in members :
                          \/ count(value[j]) < count(value[i])
                          \/ (count(value[j]) = count(value[i])
                                /\ i <= first(value[j]))
    IN  value[best]

\* the point one cluster of markers collapses to
cluster_point(members, markers) ==
    IF Cardinality(members) = 1
    THEN markers[CHOOSE i \in members : TRUE]
    ELSE LET n == Cardinality(members)
             cx == SumOver(members, [i \in members |-> markers[i].x]) \div n
             cy == SumOver(members, [i \in members |-> markers[i].y]) \div n
         IN  Point(cx, cy,
                   MostCommon(members, [i \in members |-> markers[i].color]),
                   MostCommon(members, [i \in members |-> markers[i].marker_type]))

\* a deduplication that clusters the curve candidates together with the markers
separate_all_clustered(candidates) ==
    LET clusters == ClustersFrom(1, candidates, 8, {})
    IN  [k \in DOMAIN clusters |-> cluster_point(clusters[k], candidates)]

\* _separate_markers_and_curves
separate_markers_and_curves(candidates) ==
    LET markers == SelectSeq(candidates, LAMBDA p : p.marker_type # "curve")
        curves == SelectSeq(candidates, LAMBDA p : p.marker_type = "curve")
        clusters == ClustersFrom(1, markers, 8, {})
    IN  [k \in DOMAIN clusters |-> cluster_point(clusters[k], markers)] \o curves

\* int(k * (size / grid_size)), the edge of a grid cell; the float product
\* truncates to the exact quotient for the sizes and grids of this model
CellEdge(k, size, grid_size) == (k * size) \div grid_size

\* _find_most_colorful_pixel on the cell roi[y1:y2, x1:x2]; pixels are the
\* pixels of the region that are not white or gray, [x, y, color, score]: the
\* highest score wins, the first in scan order among equals, and it counts
\* only above 10
find_most_colorful_pixel(pixels, x1, y1, x2, y2) ==
    LET cell == {p \in pixels : x1 <= p.x /\ p.x < x2 /\ y1 <= p.y /\ p.y < y2}
        before(p, q) == p.y < q.y \/ (p.y = q.y /\ p.x <= q.x)
    IN  IF cell = {} THEN None
        ELSE LET best == CHOOSE p \in cell :
                             \A q \in cell :
                                 q.score < p.score \/ (q.score = p.score /\ before(p, q))
             IN  IF best.score > 10 THEN best ELSE None

\* a cell that reports every pixel above the score threshold
cell_points_every_pixel(pixels, x1, y1, x2, y2, offset_x, offset_y) ==
    LET cell == {p \in pixels : /\ x1 <= p.x /\ p.x < x2 /\ y1 <= p.y /\ p.y < y2
                                /\ p.score > 10}
        key == [p \in cell |-> p.y * (x2 + 1) + p.x]
        RECURSIVE AsSeq(_)
        AsSeq(S) == IF S = {} THEN <<>>
                    ELSE LET m == CHOOSE p \in S : \A q \in S : key[p] <= key[q]
                         IN  <<Point(offset_x + m.x, offset_y + m.y, m.color, "curve")>>
                             \o AsSeq(S \ {m})
    IN  AsSeq(cell)

\* the body of the grid loop for one cell: no point for an empty cell or a
\* cell without a colourful pixel, else one curve point
cell_points(pixels, x1, y1, x2, y2, offset_x, offset_y) ==
    LET best == find_most_colorful_pixel(pixels, x1, y1, x2, y2)
    IN  IF x2 <= x1 \/ y2 <= y1 \/ best = None THEN <<>>
        ELSE <<Point(offset_x + best.x, offset_y + best.y, best.color, "curve")>>

\* for row in range(grid_size): for col in range(grid_size), cell k = row * grid_size + col
RECURSIVE GridLoop(_, _, _, _, _, _, _)
GridLoop(k, h, w, offset_x, offset_y, grid_size, pixels) ==
    IF k >= grid_size * grid_size THEN <<>>
    ELSE LET row == k \div grid_size
             col == k % grid_size
         IN  cell_points(pixels,
                         CellEdge(col, w, grid_size), CellEdge(row, h, grid_size),
                         CellEdge(col + 1, w, grid_size), CellEdge(row + 1, h, grid_size),
                         offset_x, offset_y)
             \o GridLoop(k + 1, h, w, offset_x, offset_y, grid_size, pixels)

\* _detect_curves_grid on a region of h rows and w columns
detect_curves_grid(h, w, offset_x, offset_y, grid_size, pixels) ==
    GridLoop(0, h, w, offset_x, offset_y, grid_size, pixels)

\* a layer that appends its detections without the bounds check
InsideRoi_unchecked(points, x1, y1, cols, rows) == points

\* the candidates of one layer that lie inside the region of interest
\* img[y1:y2, x1:x2]: 0 <= cx < roi.shape[1] and 0 <= cy < roi.shape[0]
InsideRoi(points, x1, y1, cols, rows) ==
    SelectSeq(points, LAMBDA p :
        /\ 0 <= p.x - x1 /\ p.x - x1 < cols
        /\ 0 <= p.y - y1 /\ p.y - y1 < rows)

\* a detection that skips the tests for a degenerate frame and an empty region
detect_separated_unguarded(image, f, w, h) ==
    separate_markers_and_curves(image.markers \o image.curves)

\* the list `separated` of detect_all: empty for a degenerate frame
detect_separated(image, f, w, h) ==
    LET x1 == f.top_left[1]
        y1 == f.top_left[2]
        x2 == f.bottom_right[1]
        y2 == f.bottom_right[2]
        rows == SliceLen(y1, y2, h)
        cols == SliceLen(x1, x2, w)
    IN  IF x2 <= x1 \/ y2 <= y1 \/ rows * cols = 0 THEN <<>>
        ELSE separate_markers_and_curves(
                 InsideRoi(image.markers, x1, y1, cols, rows)
                 \o InsideRoi(image.curves, x1, y1, cols, rows))

\* detect_all
detect_all(image, f, w, h, x_calib, y_calib) ==
    group_by_color(detect_separated(image, f, w, h), f, x_calib, y_calib)

(***************************************************************************)
(* exporter.py: DataExporter.visualize converts a data point back          *)
(***************************************************************************)
\* norm_x of visualize (a ZeroDivisionError when max_value = min_value)
visualize_norm(value, calib) ==
    IF calib.max_value = calib.min_value THEN Raised
    ELSE RDiv(RSub(value, RInt(calib.min_value)),
              RInt(calib.max_value - calib.min_value))

(***************************************************************************)
(* Calls of the coordinate mapper and of its inverse on bounded inputs     *)
(***************************************************************************)
\* the calibrations the calibrator returns for the roomy frame
SingleRuns == SeqsUpTo(VariantOutcomes, 1)
XCalibrations ==
    {calibrate_x_axis(RoomyFrame, ImgW, ImgH, r) : r \in SingleRuns} \ {Raised}
YCalibrations ==
    {calibrate_y_axis(RoomyFrame, ImgW, ImgH, r) : r \in SingleRuns} \ {Raised}

\* pixels spread over the inside of frame f
FramePixels(f) ==
    {<<f.top_left[1] + (i * f.width) \div MapSteps,
       f.top_left[2] + (j * f.height) \div MapSteps>> :
        i \in 0..(MapSteps - 1), j \in 0..(MapSteps - 1)}

MapInputs ==
    Pending("map_round_trip",
            {[frame |-> RoomyFrame, marker |-> Point(p[1], p[2], <<220, 20, 20>>, "circle"),
              x_calib |-> xc, y_calib |-> yc] :
                p \in FramePixels(RoomyFrame), xc \in XCalibrations, yc \in YCalibrations})

\* _group_by_color maps the pixel to a data point, visualize maps it back
MapRoundTripCall ==
    /\ op = "none"
    /\ arg.fn = "map_round_trip"
    /\ LET a == arg.in
           pt == data_point(a.marker, a.frame, a.x_calib, a.y_calib)
       IN  res' = [x |-> pt.x, y |-> pt.y,
                   norm_x |-> visualize_norm(pt.x, a.x_calib),
                   norm_y |-> visualize_norm(pt.y, a.y_calib)]
    /\ op' = "map_round_trip"
    /\ UNCHANGED <<arg, extractor_vars>>

InitMap ==
    /\ ExtractorUnused
    /\ op = "none"
    /\ arg \in MapInputs
    /\ res = None

NextMap == MapRoundTripCall

SpecMap == InitMap /\ [][NextMap]_vars

\* C9: mapping a normalised coordinate to a data value and back with the
\* inverse used for the overlay recovers the normalised coordinate, with and
\* without a zero_position.
C9_MapperRoundTrip ==
    op = "map_round_trip" =>
        /\ res.norm_x = graph_x(arg.in.marker, arg.in.frame)
        /\ res.norm_y = graph_y(arg.in.marker, arg.in.frame)

\* the data x of the pixel column px of frame f under calibration calib
RealXOf(px, f, calib) ==
    pixel_to_real_x(graph_x(Point(px, f.top_left[2], <<0, 0, 0>>, "circle"), f), calib)

\* C26: for every calibration calibrate_x_axis returns, _pixel_to_real_x maps
\* normalised 0 to min_value and normalised 1 to max_value and never
\* decreases as the normalised x grows.
C26_MapperMonotone ==
    op = "map_round_trip" =>
        LET c == arg.in.x_calib
            at0 == pixel_to_real_x(RInt(0), c)
            at1 == pixel_to_real_x(RInt(1), c)
        IN  /\ RLeq(at0, RInt(c.min_value)) /\ RLeq(RInt(c.min_value), at0)
            /\ RLeq(at1, RInt(c.max_value)) /\ RLeq(RInt(c.max_value), at1)
            /\ \A p \in FramePixels(arg.in.frame) :
                  p[1] <= arg.in.marker.x
                      => RLeq(RealXOf(p[1], arg.in.frame, c), res.x)

\* the same for the calibrations without a zero_position
C26_AffineMonotone ==
    (op = "map_round_trip" /\ arg.in.x_calib.zero_position = None) =>
        LET c == arg.in.x_calib
            at0 == pixel_to_real_x(RInt(0), c)
            at1 == pixel_to_real_x(RInt(1), c)
        IN  /\ RLeq(at0, RInt(c.min_value)) /\ RLeq(RInt(c.min_value), at0)
            /\ RLeq(at1, RInt(c.max_value)) /\ RLeq(RInt(c.max_value), at1)
            /\ \A p \in FramePixels(arg.in.frame) :
                  p[1] <= arg.in.marker.x
                      => RLeq(RealXOf(p[1], arg.in.frame, c), res.x)

(***************************************************************************)
(* graph_extractor_ultimate.py: GraphExtractorUltimate on one image        *)
(***************************************************************************)
HLine(y) == Line(PosLow(ImgW), y, PosHigh(ImgW), y)
VLine(x) == Line(x, PosLow(ImgH), x, PosHigh(ImgH))

\* Hough segments of the images: none (border fallback); one oblique segment;
\* a complete frame; one axis of each orientation; the same with the
\* horizontal axis near the top of the image
ImageLines ==
    {<<>>,
     <<Line(PosLow(ImgW), PosLow(ImgH), PosHigh(ImgW), PosHigh(ImgH))>>,
     <<HLine(PosLow(ImgH)), HLine(PosHigh(ImgH)),
       VLine(PosLow(ImgW)), VLine(PosHigh(ImgW))>>,
     <<HLine(PosHigh(ImgH)), VLine(PosLow(ImgW))>>,
     <<HLine(PosLow(ImgH)), VLine(PosMid(ImgW))>>}

\* detections of the marker layer: a red circle found by the circle strategy
\* and a blue square found by the contour strategy
ImageMarkers ==
    {Point((3 * ImgW) \div 10, PosMid(ImgH), <<220, 20, 20>>, "circle"),
     Point((7 * ImgW) \div 10, (3 * ImgH) \div 10, <<20, 20, 220>>, "square")}

\* samples of the curve layer: a green curve pixel
ImageCurves ==
    {Point(PosMid(ImgW), (6 * ImgH) \div 10, <<20, 180, 20>>, "curve")}

Images ==
    {[lines |-> l, markers |-> m, curves |-> c] :
        l \in ImageLines,
        m \in SeqsUpTo(ImageMarkers, MaxMarkers),
        c \in SeqsUpTo(ImageCurves, MaxCurves)}

\* the ranges a caller passes to set_manual_calibration
ManualRanges ==
    {[x_min |-> 0, x_max |-> 100, y_min |-> 0, y_max |-> 50],
     [x_min |-> -5, x_max |-> 5, y_min |-> 10, y_max |-> 20]}

\* GraphExtractorUltimate.__init__
Init ==
    /\ img \in Images
    /\ frame = None
    /\ x_calibration = None
    /\ y_calibration = None
    /\ data_points = <<>>
    /\ pc = "idle"
    /\ stages = <<>>
    /\ separated = <<>>
    /\ last_call = "none"
    /\ op = "none"
    /\ arg = None
    /\ res = None

\* process() that goes on to calibrate although find_frame returned no frame
ProcessFindFrameNoAbort ==
    /\ pc = "idle"
    /\ stages' = <<"detect_axes", "find_frame">>
    /\ frame' = find_frame(detect_axes(img.lines, ImgW, ImgH), ImgW, ImgH)
    /\ pc' = "calibrate_x"
    /\ UNCHANGED <<img, x_calibration, y_calibration, data_points, separated,
                   last_call, call_vars>>

\* process(), steps 1 and 2: detect_axes, find_frame; no frame raises ValueError
ProcessFindFrame ==
    /\ pc = "idle"
    /\ stages' = <<"detect_axes", "find_frame">>
    /\ frame' = find_frame(detect_axes(img.lines, ImgW, ImgH), ImgW, ImgH)
    /\ IF frame' = None
       THEN pc' = "idle" /\ last_call' = "process_raised"
       ELSE pc' = "calibrate_x" /\ UNCHANGED last_call
    /\ UNCHANGED <<img, x_calibration, y_calibration, data_points, separated, call_vars>>

\* process() that skips calibrate_y_axis
ProcessCalibrateXSkipsY ==
    /\ pc = "calibrate_x"
    /\ \E run \in SingleRuns :
          LET c == calibrate_x_axis(frame, ImgW, ImgH, run)
          IN  IF c.kind = "raise"
              THEN /\ pc' = "idle"
                   /\ last_call' = "process_raised"
                   /\ UNCHANGED <<x_calibration, stages>>
              ELSE /\ x_calibration' = c
                   /\ stages' = Append(stages, "calibrate_x")
                   /\ pc' = "detect"
                   /\ UNCHANGED last_call
    /\ UNCHANGED <<img, frame, y_calibration, data_points, separated, call_vars>>

\* process(), step 3a: calibrator.calibrate_x_axis(); run is what the OCR
\* attempts answer; an exception leaves process()
ProcessCalibrateX ==
    /\ pc = "calibrate_x"
    /\ \E run \in SingleRuns :
          LET c == calibrate_x_axis(frame, ImgW, ImgH, run)
          IN  IF c.kind = "raise"
              THEN /\ pc' = "idle"
                   /\ last_call' = "process_raised"
                   /\ UNCHANGED <<x_calibration, stages>>
              ELSE /\ x_calibration' = c
                   /\ stages' = Append(stages, "calibrate_x")
                   /\ pc' = "calibrate_y"
                   /\ UNCHANGED last_call
    /\ UNCHANGED <<img, frame, y_calibration, data_points, separated, call_vars>>

\* process(), step 3b: calibrator.calibrate_y_axis()
ProcessCalibrateY ==
    /\ pc = "calibrate_y"
    /\ \E run \in SingleRuns :
          LET c == calibrate_y_axis(frame, ImgW, ImgH, run)
          IN  IF c.kind = "raise"
              THEN /\ pc' = "idle"
                   /\ last_call' = "process_raised"
                   /\ UNCHANGED <<y_calibration, stages>>
              ELSE /\ y_calibration' = c
                   /\ stages' = Append(stages, "calibrate_y")
                   /\ pc' = "detect"
                   /\ UNCHANGED last_call
    /\ UNCHANGED <<img, frame, x_calibration, data_points, separated, call_vars>>

\* process(), step 4: marker_detector.detect_all(...), then return
ProcessDetect ==
    /\ pc = "detect"
    /\ separated' = detect_separated(img, frame, ImgW, ImgH)
    /\ data_points' = detect_all(img, frame, ImgW, ImgH, x_calibration, y_calibration)
    /\ stages' = Append(stages, "detect_all")
    /\ pc' = "idle"
    /\ last_call' = "process_returned"
    /\ UNCHANGED <<img, frame, x_calibration, y_calibration, call_vars>>

\* _recalculate_points: every point is appended to the new dict unchanged
recalculate_points(points) ==
    [k \in DOMAIN points |-> [i \in DOMAIN points[k] |-> points[k][i]]]

\* set_manual_calibration(x_min, x_max, y_min, y_max)
SetManualCalibration ==
    /\ pc = "idle"
    /\ \E m \in ManualRanges :
          /\ x_calibration' = AxisCalibration(m.x_min, m.x_max, None, FALSE)
          /\ y_calibration' = AxisCalibration(m.y_min, m.y_max, None, FALSE)
    /\ data_points' = IF data_points # <<>> /\ frame # None
                      THEN recalculate_points(data_points)
                      ELSE data_points
    /\ last_call' = "set_manual_calibration"
    /\ UNCHANGED <<img, frame, pc, stages, separated, call_vars>>

Next ==
    \/ ProcessFindFrame
    \/ ProcessCalibrateX
    \/ ProcessCalibrateY
    \/ ProcessDetect
    \/ SetManualCalibration

Spec == Init /\ [][Next]_vars

(***************************************************************************)
(* Claims about GraphExtractorUltimate (checked under Spec)                *)
(***************************************************************************)
Ran(stage) == \E i \in DOMAIN stages : stages[i] = stage

\* C1: when find_frame returns no frame, process() raises and neither
\* calibration nor detection runs: x_calibration, y_calibration and
\* data_points are left as they were, and data_points is empty.
C1_NoFrameAbortsProcess ==
    /\ []((frame = None /\ stages # <<>>) =>
             /\ pc = "idle"
             /\ stages = <<"detect_axes", "find_frame">>
             /\ data_points = <<>>)
    /\ [][(ProcessFindFrame /\ frame' = None) =>
             /\ last_call' = "process_raised"
             /\ pc' = "idle"
             /\ UNCHANGED <<x_calibration, y_calibration, data_points>>]_vars

\* process() has raised for want of a frame
C1_Witness ==
    /\ last_call = "process_raised"
    /\ frame = None
    /\ stages = <<"detect_axes", "find_frame">>
    /\ x_calibration = None
    /\ data_points = <<>>

\* C2: inside process() the calibration starts only with a frame, the
\* detection only after both calibrations of this run; a process() that
\* returns has run every stage in order and left frame, x_calibration and
\* y_calibration set.
C2_StagesInOrder ==
    /\ pc \in {"calibrate_x", "calibrate_y", "detect"} => frame # None
    /\ pc = "calibrate_x" => stages = <<"detect_axes", "find_frame">>
    /\ pc = "calibrate_y" =>
          /\ stages = <<"detect_axes", "find_frame", "calibrate_x">>
          /\ x_calibration # None
    /\ pc = "detect" =>
          /\ stages = <<"detect_axes", "find_frame", "calibrate_x", "calibrate_y">>
          /\ x_calibration # None
          /\ y_calibration # None
    /\ (pc = "idle" /\ last_call = "process_returned") =>
          /\ stages = <<"detect_axes", "find_frame", "calibrate_x", "calibrate_y",
                        "detect_all">>
          /\ frame # None
          /\ x_calibration # None
          /\ y_calibration # None

\* process() has returned points
C2_Witness ==
    /\ pc = "idle"
    /\ last_call = "process_returned"
    /\ Ran("detect_all")
    /\ data_points # <<>>

\* C10: after process() has produced points, set_manual_calibration replaces
\* both calibrations and re-maps every detected point: each stored point is
\* the mapper's value of its pixel under the manual ranges.
C10_ManualCalibrationRemaps ==
    (last_call = "set_manual_calibration" /\ data_points # <<>>) =>
        data_points = group_by_color(separated, frame, x_calibration, y_calibration)

\* the frame's bottom-right corner is not strictly right of and below its
\* top-left corner
Degenerate(f) ==
    \/ f.bottom_right[1] <= f.top_left[1]
    \/ f.bottom_right[2] <= f.top_left[2]

\* C21: detect_all returns an empty result for a degenerate frame; every
\* frame of find_frame has width = bottom_right.x - top_left.x and
\* height = bottom_right.y - top_left.y, so whenever candidates are
\* normalised the frame's width and height are not zero.
C21_DegenerateFrameEmpty ==
    /\ (pc = "idle" /\ last_call = "process_returned" /\ Degenerate(frame))
          => (separated = <<>> /\ data_points = <<>>)
    /\ frame # None =>
          /\ frame.width = frame.bottom_right[1] - frame.top_left[1]
          /\ frame.height = frame.bottom_right[2] - frame.top_left[2]
    /\ (frame # None /\ separated # <<>>) => (frame.width > 0 /\ frame.height > 0)

\* process() returned nothing for an image with markers whose frame has a
\* bottom edge above its top edge
C21_Witness ==
    /\ pc = "idle"
    /\ last_call = "process_returned"
    /\ Degenerate(frame)
    /\ img.markers # <<>>
    /\ data_points = <<>>

(***************************************************************************)
(* graph_extractor_ultimate.py: summary, exports and visualisation         *)
(***************************************************************************)
\* ValueError raised by a method of the extractor
ValueError == [kind |-> "raise", error |-> "ValueError"]

\* least and greatest of a non-empty set of floats
RMinOf(S) == CHOOSE a \in S : \A c \in S : RLeq(a, c)
RMaxOf(S) == CHOOSE a \in S : \A c \in S : RLeq(c, a)

\* the entry get_summary builds for one series
series_summary(points) ==
    [points |-> Len(points),
     marker_types |-> {points[i].type : i \in DOMAIN points},
     x_range |-> <<RMinOf({points[i].x : i \in DOMAIN points}),
                   RMaxOf({points[i].x : i \in DOMAIN points})>>,
     y_range |-> <<RMinOf({points[i].y : i \in DOMAIN points}),
                   RMaxOf({points[i].y : i \in DOMAIN points})>>]

\* get_summary: a dict, modelled by the function from its keys; {} is <<>>
get_summary(points, x_calib, y_calib) ==
    IF points = <<>> THEN <<>>
    ELSE IF x_calib = None \/ y_calib = None THEN Raised
    ELSE [total_series |-> Cardinality(DOMAIN points),
          total_points |-> SumOver(DOMAIN points,
                                   [k \in DOMAIN points |-> Len(points[k])]),
          calibration |-> [x_min |-> x_calib.min_value, x_max |-> x_calib.max_value,
                           y_min |-> y_calib.min_value, y_max |-> y_calib.max_value],
          series |-> [k \in DOMAIN points |-> series_summary(points[k])]]

\* the file an exporter writes: its format and the series it holds
Written(format, points) ==
    [kind |-> "written", format |-> format,
     series |-> [k \in DOMAIN points |-> Len(points[k])]]

export_excel(points) ==
    IF points = <<>> THEN ValueError ELSE Written("excel", points)

export_txt(points) ==
    IF points = <<>> THEN ValueError ELSE Written("txt", points)

\* an export that writes its file whatever the extractor holds
export_csv_unguarded(points) == Written("csv", points)

export_csv(points) ==
    IF points = <<>> THEN ValueError ELSE Written("csv", points)

\* visualize: the image with the frame and one mark per data point, each at
\* the normalised position DataExporter.visualize converts it back to
visualize(points, f, x_calib, y_calib) ==
    IF points = <<>> THEN ValueError
    ELSE LET marks == {<<k, i>> : k \in DOMAIN points, i \in 1..MaxMarkers + MaxCurves}
             drawn == {m \in marks : m[2] \in DOMAIN points[m[1]]}
             at(m) == <<visualize_norm(points[m[1]][m[2]].x, x_calib),
                        visualize_norm(points[m[1]][m[2]].y, y_calib)>>
         IN  IF \E m \in drawn : Raised \in {at(m)[1], at(m)[2]}
             THEN Raised
             ELSE [kind |-> "image", frame |-> f, marks |-> {at(m) : m \in drawn}]

\* Hough segments of the images the extractor is queried on: one oblique
\* segment (no frame) and a complete frame
ApiLines == {l \in ImageLines : Len(l) \in {1, 4}}

ApiImages ==
    {[lines |-> l, markers |-> m, curves |-> c] :
        l \in ApiLines,
        m \in SeqsUpTo(ImageMarkers, MaxMarkers),
        c \in SeqsUpTo(ImageCurves, MaxCurves)}

InitApi ==
    /\ img \in ApiImages
    /\ frame = None
    /\ x_calibration = None
    /\ y_calibration = None
    /\ data_points = <<>>
    /\ pc = "idle"
    /\ stages = <<>>
    /\ separated = <<>>
    /\ last_call = "none"
    /\ op = "none"
    /\ arg = None
    /\ res = None

\* extractor.get_summary()
GetSummary ==
    /\ pc = "idle"
    /\ op' = "get_summary"
    /\ res' = get_summary(data_points, x_calibration, y_calibration)
    /\ UNCHANGED <<arg, extractor_vars>>

\* extractor.export_excel(path)
ExportExcel ==
    /\ pc = "idle"
    /\ op' = "export_excel"
    /\ res' = export_excel(data_points)
    /\ UNCHANGED <<arg, extractor_vars>>

\* extractor.export_txt(path)
ExportTxt ==
    /\ pc = "idle"
    /\ op' = "export_txt"
    /\ res' = export_txt(data_points)
    /\ UNCHANGED <<arg, extractor_vars>>

\* extractor.export_csv(path)
ExportCsv ==
    /\ pc = "idle"
    /\ op' = "export_csv"
    /\ res' = export_csv(data_points)
    /\ UNCHANGED <<arg, extractor_vars>>

\* extractor.visualize(path)
Visualize ==
    /\ pc = "idle"
    /\ op' = "visualize"
    /\ res' = visualize(data_points, frame, x_calibration, y_calibration)
    /\ UNCHANGED <<arg, extractor_vars>>

\* the caller removes one series: del extractor.data_points[series]
RemoveSeries ==
    /\ pc = "idle"
    /\ \E series \in DOMAIN data_points :
          data_points' = [k \in DOMAIN data_points \ {series} |-> data_points[k]]
    /\ last_call' = "remove_series"
    /\ UNCHANGED <<img, frame, x_calibration, y_calibration, pc, stages, separated,
                   call_vars>>

\* The calls that change the extractor, then the calls that only read it: a
\* read changes nothing (UNCHANGED extractor_vars), so what it answers after
\* further calls is what it answers in the behaviour without the earlier reads
NextApi ==
    \/ (op = "none" /\ ProcessFindFrame)
    \/ (op = "none" /\ ProcessCalibrateX)
    \/ (op = "none" /\ ProcessCalibrateY)
    \/ (op = "none" /\ ProcessDetect)
    \/ (op = "none" /\ SetManualCalibration)
    \/ (op = "none" /\ RemoveSeries)
    \/ GetSummary
    \/ ExportExcel
    \/ ExportTxt
    \/ ExportCsv
    \/ Visualize

SpecApi == InitApi /\ [][NextApi]_vars

(***************************************************************************)
(* Claims about the extractor's calls (checked under SpecApi)              *)
(***************************************************************************)
ProcessStep ==
    ProcessFindFrame \/ ProcessCalibrateX \/ ProcessCalibrateY \/ ProcessDetect

\* the ranges of a calibration, as get_summary reports them
ReportedRanges(x_calib, y_calib) ==
    [x_min |-> x_calib.min_value, x_max |-> x_calib.max_value,
     y_min |-> y_calib.min_value, y_max |-> y_calib.max_value]

\* C11: once set_manual_calibration has supplied a calibration, no step of a
\* later process() replaces it, the stored points are the mapper's values
\* under it, and get_summary reports its ranges.
C11_ManualCalibrationInEffect ==
    /\ [][(last_call = "set_manual_calibration" /\ ProcessStep)
             => UNCHANGED <<x_calibration, y_calibration>>]_vars
    /\ []((last_call = "set_manual_calibration" /\ data_points # <<>>)
             => data_points = group_by_color(separated, frame,
                                             x_calibration, y_calibration))
    /\ []((op = "get_summary" /\ last_call = "set_manual_calibration"
             /\ data_points # <<>>)
             => /\ "calibration" \in DOMAIN res
                /\ res.calibration \in ManualRanges)

ExportCalls == {"export_excel", "export_txt", "export_csv", "visualize"}

\* C18: after a process() that returned, get_summary returns a summary with
\* total_series, total_points, the calibration ranges and, per series, its
\* point count, marker types, x_range and y_range.
C18_SummaryAfterProcess ==
    (op = "get_summary" /\ last_call = "process_returned") =>
        /\ {"total_series", "total_points", "calibration", "series"} \subseteq DOMAIN res
        /\ res.total_series = Cardinality(DOMAIN data_points)
        /\ res.total_points = SumOver(DOMAIN data_points,
                                      [k \in DOMAIN data_points |-> Len(data_points[k])])
        /\ res.calibration = ReportedRanges(x_calibration, y_calibration)
        /\ DOMAIN res.series = DOMAIN data_points
        /\ \A k \in DOMAIN data_points :
              LET pts == data_points[k]
                  e == res.series[k]
              IN  /\ e.points = Len(pts)
                  /\ e.marker_types = {pts[i].type : i \in DOMAIN pts}
                  /\ \A i \in DOMAIN pts :
                        /\ RLeq(e.x_range[1], pts[i].x) /\ RLeq(pts[i].x, e.x_range[2])
                        /\ RLeq(e.y_range[1], pts[i].y) /\ RLeq(pts[i].y, e.y_range[2])
                  /\ \E i \in DOMAIN pts : e.x_range[1] = pts[i].x
                  /\ \E i \in DOMAIN pts : e.x_range[2] = pts[i].x
                  /\ \E i \in DOMAIN pts : e.y_range[1] = pts[i].y
                  /\ \E i \in DOMAIN pts : e.y_range[2] = pts[i].y

\* C19: export_excel, export_txt, export_csv and visualize raise ValueError
\* and write nothing whenever the extractor holds no data points.
C19_NoExportWithoutData ==
    (op \in ExportCalls /\ data_points = <<>>) => res = ValueError

\* an export was refused after the caller had removed every series that
\* process() had found
C19_Witness ==
    /\ op \in ExportCalls
    /\ res = ValueError
    /\ last_call = "remove_series"
    /\ Ran("detect_all")
    /\ separated # <<>>
    /\ data_points = <<>>

(***************************************************************************)
(* Calls of MarkerDetectorHybrid on bounded inputs                         *)
(***************************************************************************)
\* candidates along one row: red circles 7, 14 and 30 px apart, a blue square
\* between the first two, and two samples of the curve layer 1 px apart; a red
\* circle 8 px from the first and one below the middle of these two, more
\* than 8 px from both
DedupCatalogue ==
    {Point(PosMid(ImgW), PosMid(ImgH), <<220, 20, 20>>, "circle"),
     Point(PosMid(ImgW) + 7, PosMid(ImgH), <<20, 20, 220>>, "square"),
     Point(PosMid(ImgW) + 14, PosMid(ImgH), <<220, 20, 20>>, "circle"),
     Point(PosMid(ImgW) + 30, PosMid(ImgH), <<220, 20, 20>>, "circle"),
     Point(PosMid(ImgW) + 3, PosMid(ImgH), <<20, 180, 20>>, "curve"),
     Point(PosMid(ImgW) + 4, PosMid(ImgH), <<20, 20, 220>>, "curve"),
     Point(PosMid(ImgW) + 8, PosMid(ImgH), <<220, 20, 20>>, "circle"),
     Point(PosMid(ImgW) + 4, PosMid(ImgH) + 7, <<220, 20, 20>>, "circle")}

DedupInputs(max_candidates) ==
    Pending("separate_markers_and_curves", SeqsUpTo(DedupCatalogue, max_candidates))

\* self._separate_markers_and_curves(all_candidates)
SeparateCall ==
    /\ op = "none"
    /\ arg.fn = "separate_markers_and_curves"
    /\ op' = "separate_markers_and_curves"
    /\ res' = separate_markers_and_curves(arg.in)
    /\ UNCHANGED <<arg, extractor_vars>>

\* the pixels of a region of h rows and w columns that are not white or gray:
\* red and green ones, every third too faint to count
GridPixels(h, w) ==
    {[x |-> x, y |-> y,
      color |-> IF (x + y) % 2 = 0 THEN <<220, 20, 20>> ELSE <<20, 180, 20>>,
      score |-> IF (x + 2 * y) % 3 = 2 THEN 5 ELSE 40] :
        x \in 0..(w - 1), y \in 0..(h - 1)}

SubsetsUpTo(S, n) == {T \in SUBSET S : Cardinality(T) <= n}

GridInputs(max_roi, max_grid, max_coloured) ==
    Pending("detect_curves_grid",
            UNION {{[h |-> h, w |-> w, offset |-> o, grid_size |-> g, pixels |-> px] :
                       o \in {<<0, 0>>, <<PosLow(ImgW), PosMid(ImgH)>>},
                       g \in 1..max_grid,
                       px \in SubsetsUpTo(GridPixels(h, w), max_coloured)} :
                   h \in 1..max_roi, w \in 1..max_roi})

\* self._detect_curves_grid(roi, x1, y1, grid_size)
DetectCurvesGridCall ==
    /\ op = "none"
    /\ arg.fn = "detect_curves_grid"
    /\ op' = "detect_curves_grid"
    /\ res' = detect_curves_grid(arg.in.h, arg.in.w, arg.in.offset[1], arg.in.offset[2],
                                 arg.in.grid_size, arg.in.pixels)
    /\ UNCHANGED <<arg, extractor_vars>>

\* channel values around every threshold of _get_color_key
ChannelValues == {0, 10, 20, 79, 80, 100, 101, 130, 131, 150, 151, 180, 220, 231, 255}

ColorInputs ==
    Pending("get_color_key", ChannelValues \X ChannelValues \X ChannelValues)

\* self._get_color_key(marker.color)
GetColorKeyCall ==
    /\ op = "none"
    /\ arg.fn = "get_color_key"
    /\ op' = "get_color_key"
    /\ res' = get_color_key(arg.in)
    /\ UNCHANGED <<arg, extractor_vars>>

\* the frames of the detection calls: with room around, touching the image
\* edge, and one of negative height
DetectFrames ==
    {RoomyFrame, CrampedFrame,
     FrameAt(PosLow(ImgW), Int01(ImgH), Int09(ImgW), PosLow(ImgH))}

\* what the marker layer reports around the roomy frame: two detections of one
\* marker, a marker in the frame's last row and column, markers on the frame's
\* right and bottom edge and one left of the frame
DetectCatalogue ==
    LET f == RoomyFrame
        left == f.top_left[1]
        top == f.top_left[2]
        right == f.bottom_right[1]
        bottom == f.bottom_right[2]
    IN  {Point(left + 10, top + 15, <<220, 20, 20>>, "circle"),
         Point(left + 14, top + 16, <<220, 20, 20>>, "square"),
         Point(right - 1, bottom - 1, <<20, 20, 220>>, "square"),
         Point(right, top + 15, <<220, 20, 20>>, "circle"),
         Point(left + 10, bottom, <<220, 20, 20>>, "circle"),
         Point(left - 10, top + 15, <<20, 20, 220>>, "circle")}

\* the curve layer of detect_all on the region of frame f
CurveLayer(f, w, h, grid_size, pixels) ==
    LET x1 == f.top_left[1]
        y1 == f.top_left[2]
        x2 == f.bottom_right[1]
        y2 == f.bottom_right[2]
    IN  IF x2 <= x1 \/ y2 <= y1 THEN <<>>
        ELSE detect_curves_grid(SliceLen(y1, y2, h), SliceLen(x1, x2, w), x1, y1,
                                grid_size, pixels)

\* two coloured pixels of a frame's region, in its first and in its last cell
CornerPixels(f) ==
    {[x |-> 0, y |-> 0, color |-> <<20, 180, 20>>, score |-> 40],
     [x |-> f.width - 1, y |-> f.height - 1, color |-> <<20, 180, 20>>, score |-> 40]}

DetectInputs(max_markers) ==
    Pending("detect_separated",
            {[frame |-> f,
              image |-> [lines |-> <<>>, markers |-> m,
                         curves |-> CurveLayer(f, ImgW, ImgH, 2, CornerPixels(f))]] :
                f \in DetectFrames, m \in SeqsUpTo(DetectCatalogue, max_markers)})

\* the candidates of detect_all after its deduplication
DetectSeparatedCall ==
    /\ op = "none"
    /\ arg.fn = "detect_separated"
    /\ op' = "detect_separated"
    /\ res' = detect_separated(arg.in.image, arg.in.frame, ImgW, ImgH)
    /\ UNCHANGED <<arg, extractor_vars>>

InitMarker ==
    /\ ExtractorUnused
    /\ op = "none"
    /\ arg \in DedupInputs(MaxCandidates)
               \cup GridInputs(MaxRoi, MaxGrid, MaxColoured)
               \cup ColorInputs
               \cup DetectInputs(MaxMarkers)
    /\ res = None

NextMarker ==
    \/ SeparateCall
    \/ DetectCurvesGridCall
    \/ GetColorKeyCall
    \/ DetectSeparatedCall

SpecMarker == InitMarker /\ [][NextMarker]_vars

(***************************************************************************)
(* Claims about MarkerDetectorHybrid (checked under SpecMarker)            *)
(***************************************************************************)
MarkersOf(points) == SelectSeq(points, LAMBDA p : p.marker_type # "curve")
CurvesOf(points) == SelectSeq(points, LAMBDA p : p.marker_type = "curve")

Dist2(p, q) == (p.x - q.x) * (p.x - q.x) + (p.y - q.y) * (p.y - q.y)

\* the clustering radius of the deduplication, eps of DBSCAN
ClusterRadius == 8

\* markers i and j are joined by a chain of markers, each within the radius of the next
Chained(ms, i, j) ==
    \E path \in SeqsUpTo(DOMAIN ms, Len(ms)) :
        /\ path # <<>>
        /\ path[1] = i
        /\ path[Len(path)] = j
        /\ \A k \in 1..(Len(path) - 1) :
              Dist2(ms[path[k]], ms[path[k + 1]]) <= ClusterRadius * ClusterRadius

Chains(ms) == {{j \in DOMAIN ms : Chained(ms, i, j)} : i \in DOMAIN ms}

\* C12 as stated: two marker candidates closer than the clustering radius
\* collapse into one output point, and two marker candidates farther apart
\* than the radius remain two distinct output points.
C12_DedupByDistance ==
    op = "separate_markers_and_curves" =>
        LET ms == MarkersOf(arg.in)
            outs == MarkersOf(res)
        IN  /\ \A i, j \in DOMAIN ms :
                  (i < j /\ Dist2(ms[i], ms[j]) < ClusterRadius * ClusterRadius)
                      => Len(outs) < Len(ms)
            /\ \A i, j \in DOMAIN ms :
                  Dist2(ms[i], ms[j]) > ClusterRadius * ClusterRadius
                      => Len(outs) >= 2

\* C12 amended: two marker candidates closer than the clustering radius
\* collapse into one output point; the output has one marker point per chain
\* of candidates linked by steps within the radius, so two candidates farther
\* apart than the radius stay distinct unless such a chain joins them; curve
\* candidates pass through unchanged.
C12_DedupByChains ==
    op = "separate_markers_and_curves" =>
        LET ms == MarkersOf(arg.in)
            outs == MarkersOf(res)
        IN  /\ Len(outs) = Cardinality(Chains(ms))
            /\ \A i, j \in DOMAIN ms :
                  (i < j /\ Dist2(ms[i], ms[j]) < ClusterRadius * ClusterRadius)
                      => Len(outs) < Len(ms)
            /\ (\A i, j \in DOMAIN ms : i # j => ~Chained(ms, i, j)) => outs = ms
            /\ CurvesOf(res) = CurvesOf(arg.in)
            /\ Len(res) = Len(outs) + Len(CurvesOf(arg.in))

\* three markers in a chain, the outer two farther apart than the radius,
\* have collapsed into one point
C12_Witness ==
    /\ op = "separate_markers_and_curves"
    /\ Len(MarkersOf(arg.in)) = 3
    /\ Len(MarkersOf(res)) = 1
    /\ \E i, j \in DOMAIN MarkersOf(arg.in) :
          Dist2(MarkersOf(arg.in)[i], MarkersOf(arg.in)[j]) > ClusterRadius * ClusterRadius

\* C23: _separate_markers_and_curves clusters only the candidates that are
\* not tagged 'curve': the curve candidates of the input are the tail of the
\* output, each once, with position, colour, tag and order unchanged, however
\* close they lie to a marker or to one another, and no other output point is
\* tagged 'curve'.
C23_CurvesPassThrough ==
    op = "separate_markers_and_curves" =>
        LET curves == CurvesOf(arg.in)
            n == Len(res) - Len(curves)
        IN  /\ n >= 0
            /\ \A i \in DOMAIN curves : res[n + i] = curves[i]
            /\ \A i \in 1..n : res[i].marker_type # "curve"
            /\ \A p \in Range(curves) :
                  Cardinality({i \in DOMAIN res : res[i] = p})
                      = Cardinality({i \in DOMAIN curves : curves[i] = p})

\* two different curve samples 1 px apart, the first 3 px from a marker, came
\* out after the marker in the order they went in
C23_Witness ==
    /\ op = "separate_markers_and_curves"
    /\ Len(arg.in) = 3
    /\ Len(CurvesOf(arg.in)) = 2
    /\ CurvesOf(arg.in)[1] # CurvesOf(arg.in)[2]
    /\ arg.in[2].marker_type = "circle"
    /\ arg.in[2].x = PosMid(ImgW)
    /\ res = <<arg.in[2], arg.in[1], arg.in[3]>>

\* the output marker res[i] is an input candidate that formed a cluster alone
Unmerged(p, ms) ==
    \E i \in DOMAIN ms :
        /\ ms[i] = p
        /\ \A j \in DOMAIN ms : Chained(ms, i, j) => ms[j] = p

\* C29 as stated: after the deduplication no two marker points of the output
\* lie within 8 px of each other, so deduplicating the output again changes
\* nothing.
C29_DedupIdempotent ==
    op = "separate_markers_and_curves" =>
        LET outs == MarkersOf(res)
        IN  /\ \A i, j \in DOMAIN outs :
                  i < j => Dist2(outs[i], outs[j]) > ClusterRadius * ClusterRadius
            /\ separate_markers_and_curves(res) = res

\* C29 amended: two marker points of the output that are candidates no other
\* candidate was merged with are more than 8 px apart; a further
\* deduplication never yields more marker points and leaves the curve points
\* alone; when the first one merged nothing, all marker points are more than
\* 8 px apart and the further one changes nothing.
C29_UnmergedApart ==
    op = "separate_markers_and_curves" =>
        LET ms == MarkersOf(arg.in)
            outs == MarkersOf(res)
            again == separate_markers_and_curves(res)
        IN  /\ \A i, j \in DOMAIN outs :
                  (i < j /\ Unmerged(outs[i], ms) /\ Unmerged(outs[j], ms)
                         /\ outs[i] # outs[j])
                      => Dist2(outs[i], outs[j]) > ClusterRadius * ClusterRadius
            /\ Len(MarkersOf(again)) <= Len(outs)
            /\ CurvesOf(again) = CurvesOf(res)
            /\ Len(outs) = Len(ms) =>
                  /\ again = res
                  /\ \A i, j \in DOMAIN outs :
                        i < j => Dist2(outs[i], outs[j]) > ClusterRadius * ClusterRadius

\* two markers 8 px apart were merged into their centroid, which lies 7 px
\* from a third marker that is more than 8 px from both
C29_Witness ==
    /\ op = "separate_markers_and_curves"
    /\ Len(arg.in) = 3
    /\ Len(MarkersOf(res)) = 2
    /\ Dist2(res[1], res[2]) < ClusterRadius * ClusterRadius
    /\ Unmerged(res[2], MarkersOf(arg.in))
    /\ Len(separate_markers_and_curves(res)) = 1

\* the grid cell k = row * grid_size + col of call a holds the point p
InCell(p, k, a) ==
    LET row == k \div a.grid_size
        col == k % a.grid_size
        x == p.x - a.offset[1]
        y == p.y - a.offset[2]
    IN  /\ CellEdge(col, a.w, a.grid_size) <= x
        /\ x < CellEdge(col + 1, a.w, a.grid_size)
        /\ CellEdge(row, a.h, a.grid_size) <= y
        /\ y < CellEdge(row + 1, a.h, a.grid_size)

\* C15: grid curve detection with grid size G emits only curve-tagged
\* candidates, at most one per grid cell and at most G * G in total.
C15_GridAtMostOnePerCell ==
    op = "detect_curves_grid" =>
        LET a == arg.in
        IN  /\ Len(res) <= a.grid_size * a.grid_size
            /\ \A i \in DOMAIN res : res[i].marker_type = "curve"
            /\ \A k \in 0..(a.grid_size * a.grid_size - 1) :
                  Cardinality({i \in DOMAIN res : InCell(res[i], k, a)}) <= 1

\* a cell of a grid of at least 2 x 2 held two colourful pixels and gave one candidate
C15_Witness ==
    /\ op = "detect_curves_grid"
    /\ arg.in.grid_size >= 2
    /\ Len(res) = 1
    /\ \E p, q \in arg.in.pixels :
          /\ p # q
          /\ p.score > 10
          /\ q.score > 10
          /\ \E k \in 0..(arg.in.grid_size * arg.in.grid_size - 1) :
                /\ InCell(Point(p.x + arg.in.offset[1], p.y + arg.in.offset[2],
                                p.color, "curve"), k, arg.in)
                /\ InCell(Point(q.x + arg.in.offset[1], q.y + arg.in.offset[2],
                                q.color, "curve"), k, arg.in)

ColorNames == {"Red", "Blue", "Green", "Black", "Yellow", "Orange", "Purple"}

\* C16: _get_color_key returns, for every RGB triple, exactly one of the names
\* Red, Blue, Green, Black, Yellow, Orange, Purple; (10,10,10) is Black and
\* (220,20,20) is Red.
C16_ColorKeyTotal ==
    op = "get_color_key" =>
        /\ res \in ColorNames
        /\ arg.in = <<10, 10, 10>> => res = "Black"
        /\ arg.in = <<220, 20, 20>> => res = "Red"

\* a gray with equal channels above every threshold fell through to the default
C16_Witness ==
    /\ op = "get_color_key"
    /\ arg.in = <<180, 180, 180>>
    /\ res = "Black"

InsideFrame(p, f) ==
    /\ 0 <= p.x - f.top_left[1]
    /\ p.x - f.top_left[1] < f.width
    /\ 0 <= p.y - f.top_left[2]
    /\ p.y - f.top_left[2] < f.height

\* C17: every candidate of the curve grid lies inside the region it scanned,
\* and every candidate detect_all keeps (marker layer, curve layer, merged
\* points of the deduplication) lies inside the frame: its offset from the
\* frame's top-left corner is in [0, width) x [0, height).
C17_CandidatesInsideFrame ==
    /\ op = "detect_curves_grid" =>
          \A i \in DOMAIN res :
              /\ 0 <= res[i].x - arg.in.offset[1]
              /\ res[i].x - arg.in.offset[1] < arg.in.w
              /\ 0 <= res[i].y - arg.in.offset[2]
              /\ res[i].y - arg.in.offset[2] < arg.in.h
    /\ op = "detect_separated" =>
          \A i \in DOMAIN res : InsideFrame(res[i], arg.in.frame)

\* detect_all merged two detections of one marker into a new point and kept
\* two curve points
C17_Witness ==
    /\ op = "detect_separated"
    /\ Len(arg.in.image.markers) = 2
    /\ Len(MarkersOf(res)) = 1
    /\ \A i \in DOMAIN arg.in.image.markers :
          /\ InsideFrame(arg.in.image.markers[i], arg.in.frame)
          /\ arg.in.image.markers[i] # res[1]
    /\ Len(CurvesOf(res)) = 2

(***************************************************************************)
(* process() on the image of the end-to-end example                        *)
(***************************************************************************)
\* radius of the filled markers (the least radius HoughCircles is asked for)
MarkerRadius == 5

\* detections the marker layer reports for one image, at most
MaxDetections == 3

\* grid_divisions the extractor is built with
GridDivisions == 10

\* the colour of the markers and the score _find_most_colorful_pixel gives it
MarkerRed == <<220, 20, 20>>
RedScore == 87

\* the frame drawn in the image: room for labels below it and to its left
DrawnFrame ==
    FrameAt(ImgW \div 5, ImgH \div 10, ImgW - ImgW \div 10, ImgH - ImgH \div 5)

\* the four Hough segments of the drawn frame
FrameLines(f) ==
    <<Line(f.top_left[1], f.top_left[2], f.top_right[1], f.top_right[2]),
      Line(f.bottom_left[1], f.bottom_left[2], f.bottom_right[1], f.bottom_right[2]),
      Line(f.top_left[1], f.top_left[2], f.bottom_left[1], f.bottom_left[2]),
      Line(f.top_right[1], f.top_right[2], f.bottom_right[1], f.bottom_right[2])>>

\* centres of the three markers: X fractions 0.0, 0.5, 1.0 and Y fraction 0.5
MarkerCentre(f, k) ==
    <<f.bottom_left[1] + (k * f.width) \div 2, f.top_left[2] + f.height \div 2>>

\* the pixels of the three filled markers that lie in the region
\* img[y1:y2, x1:x2] of the frame, by their position in the region
MarkerPixels(f) ==
    LET offsets == {d \in (-MarkerRadius..MarkerRadius) \X (-MarkerRadius..MarkerRadius) :
                       d[1] * d[1] + d[2] * d[2] <= MarkerRadius * MarkerRadius}
        painted == {[x |-> MarkerCentre(f, k)[1] - f.top_left[1] + d[1],
                     y |-> MarkerCentre(f, k)[2] - f.top_left[2] + d[2],
                     color |-> MarkerRed, score |-> RedScore] :
                       k \in 0..2, d \in offsets}
    IN  {p \in painted : 0 <= p.x /\ p.x < f.width /\ 0 <= p.y /\ p.y < f.height}

\* what the strategies of the marker layer can report for the three markers:
\* a Hough circle at each centre, a Hough circle one pixel inside the right
\* edge for the marker the edge cuts, and the centroid of the visible part of
\* each marker from the colour masks
MarkerReports(f) ==
    {Point(MarkerCentre(f, k)[1], MarkerCentre(f, k)[2], MarkerRed, "circle") :
         k \in 0..2}
    \cup {Point(MarkerCentre(f, 2)[1] - 1, MarkerCentre(f, 2)[2], MarkerRed, "circle"),
          Point(MarkerCentre(f, 0)[1] + 2, MarkerCentre(f, 0)[2], MarkerRed, "point"),
          Point(MarkerCentre(f, 1)[1], MarkerCentre(f, 1)[2], MarkerRed, "point"),
          Point(MarkerCentre(f, 2)[1] - 3, MarkerCentre(f, 2)[2], MarkerRed, "point")}

EndToEndImages(max_detections) ==
    LET curves == CurveLayer(DrawnFrame, ImgW, ImgH, GridDivisions,
                             MarkerPixels(DrawnFrame))
    IN  {[lines |-> FrameLines(DrawnFrame), markers |-> m, curves |-> curves] :
            m \in SeqsUpTo(MarkerReports(DrawnFrame), max_detections)}

\* the OCR attempts on the labels of one axis: none reads anything, or one
\* variant reads both labels under every config
LabelRuns(labels) ==
    {<<>>,
     <<[pre |-> "ok", convert |-> "ok",
        configs |-> [i \in 1..NumConfigs |-> TextRead(labels)]]>>}

InitEndToEnd ==
    /\ img \in EndToEndImages(MaxDetections)
    /\ frame = None
    /\ x_calibration = None
    /\ y_calibration = None
    /\ data_points = <<>>
    /\ pc = "idle"
    /\ stages = <<>>
    /\ separated = <<>>
    /\ last_call = "none"
    /\ op = "none"
    /\ arg = None
    /\ res = None

\* process(), step 3a, on the image whose X axis carries the labels 0 and 10
EndToEndCalibrateX ==
    /\ pc = "calibrate_x"
    /\ \E run \in LabelRuns(<<0, 10>>) :
          LET c == calibrate_x_axis(frame, ImgW, ImgH, run)
          IN  IF c.kind = "raise"
              THEN /\ pc' = "idle"
                   /\ last_call' = "process_raised"
                   /\ UNCHANGED <<x_calibration, stages>>
              ELSE /\ x_calibration' = c
                   /\ stages' = Append(stages, "calibrate_x")
                   /\ pc' = "calibrate_y"
                   /\ UNCHANGED last_call
    /\ UNCHANGED <<img, frame, y_calibration, data_points, separated, call_vars>>

\* process(), step 3b, on the image whose Y axis carries the labels 0 and 100
EndToEndCalibrateY ==
    /\ pc = "calibrate_y"
    /\ \E run \in LabelRuns(<<0, 100>>) :
          LET c == calibrate_y_axis(frame, ImgW, ImgH, run)
          IN  IF c.kind = "raise"
              THEN /\ pc' = "idle"
                   /\ last_call' = "process_raised"
                   /\ UNCHANGED <<y_calibration, stages>>
              ELSE /\ y_calibration' = c
                   /\ stages' = Append(stages, "calibrate_y")
                   /\ pc' = "detect"
                   /\ UNCHANGED last_call
    /\ UNCHANGED <<img, frame, x_calibration, data_points, separated, call_vars>>

NextEndToEnd ==
    \/ ProcessFindFrame
    \/ EndToEndCalibrateX
    \/ EndToEndCalibrateY
    \/ ProcessDetect

SpecEndToEnd == InitEndToEnd /\ [][NextEndToEnd]_vars

(***************************************************************************)
(* Claims about the end-to-end example (checked under SpecEndToEnd)        *)
(***************************************************************************)
\* |value - target| <= tolerance, for a float value and integers
Near(value, target, tolerance) ==
    /\ RLeq(RInt(target - tolerance), value)
    /\ RLeq(value, RInt(target + tolerance))

\* process() returned and the OCR had read the labels of both axes
LabelsRead ==
    /\ pc = "idle"
    /\ last_call = "process_returned"
    /\ x_calibration = AxisCalibration(0, 10, None, FALSE)
    /\ y_calibration = AxisCalibration(0, 100, None, FALSE)

\* C20: on the end-to-end image the result holds exactly one series, named
\* "Red", of exactly 3 points with x near 0, 5 and 10 and y near 50, all of
\* type "circle".
C20_EndToEndOneRedSeries ==
    LabelsRead =>
        /\ DOMAIN data_points = {<<"Red">>}
        /\ LET pts == data_points[<<"Red">>]
           IN  /\ Len(pts) = 3
               /\ \A i \in DOMAIN pts :
                     pts[i].type = "circle" /\ Near(pts[i].y, 50, 5)
               /\ \E i, j, k \in DOMAIN pts :
                     /\ {i, j, k} = DOMAIN pts
                     /\ Near(pts[i].x, 0, 1)
                     /\ Near(pts[j].x, 5, 1)
                     /\ Near(pts[k].x, 10, 1)


(***************************************************************************)
(* marker_detector_hybrid.py: the detection layers and the neutral colours *)
(***************************************************************************)
\* _is_white_or_gray: all channels > 230, or avg > 180 with every channel
\* within 20 of avg, avg = (r + g + b) / 3 (compared after scaling by 3)
is_white_or_gray(rgb) ==
    LET r == rgb[1]
        g == rgb[2]
        b == rgb[3]
        total == r + g + b
    IN  \/ r > 230 /\ g > 230 /\ b > 230
        \/ /\ total > 3 * 180
           /\ Max3(Abs(3 * r - total), Abs(3 * g - total), Abs(3 * b - total)) < 3 * 20

\* strategy 1 of _detect_large_markers: the circles of cv2.HoughCircles, each
\* with the colour of roi[cy, cx]; dark tells that the inscribed region is not
\* empty and its 30th percentile is below 200
RECURSIVE CircleLoop(_, _, _, _, _)
CircleLoop(circles, rows, cols, offset_x, offset_y) ==
    IF circles = <<>> THEN <<>>
    ELSE LET c == Head(circles)
             found == IF /\ 0 <= c.cy /\ c.cy < rows /\ 0 <= c.cx /\ c.cx < cols
                         /\ c.dark
                         /\ ~is_white_or_gray(c.color)
                      THEN <<Point(offset_x + c.cx, offset_y + c.cy, c.color, "circle")>>
                      ELSE <<>>
         IN  found \o CircleLoop(Tail(circles), rows, cols, offset_x, offset_y)

\* strategy 2: the external contours of the six binarisations, in order, each
\* with its area, its centroid, the colour of roi[cy, cx] and its shape
RECURSIVE ContourLoop(_, _, _, _, _)
ContourLoop(contours, rows, cols, offset_x, offset_y) ==
    IF contours = <<>> THEN <<>>
    ELSE LET c == Head(contours)
             found == IF /\ 20 < c.area /\ c.area < 1500
                         /\ 0 <= c.cy /\ c.cy < rows /\ 0 <= c.cx /\ c.cx < cols
                         /\ ~is_white_or_gray(c.color)
                      THEN <<Point(offset_x + c.cx, offset_y + c.cy, c.color, c.shape)>>
                      ELSE <<>>
         IN  found \o ContourLoop(Tail(contours), rows, cols, offset_x, offset_y)

\* strategy 3: the external contours of the six hue-range masks, in order
RECURSIVE HsvLoop(_, _, _, _, _)
HsvLoop(contours, rows, cols, offset_x, offset_y) ==
    IF contours = <<>> THEN <<>>
    ELSE LET c == Head(contours)
             found == IF /\ 15 < c.area /\ c.area < 1000
                         /\ 0 <= c.cy /\ c.cy < rows /\ 0 <= c.cx /\ c.cx < cols
                      THEN <<Point(offset_x + c.cx, offset_y + c.cy, c.color, "point")>>
                      ELSE <<>>
         IN  found \o HsvLoop(Tail(contours), rows, cols, offset_x, offset_y)

\* _detect_large_markers on what OpenCV reports for the region
detect_large_markers(rows, cols, circles, contours, hsv_contours, offset_x, offset_y) ==
    CircleLoop(circles, rows, cols, offset_x, offset_y)
    \o ContourLoop(contours, rows, cols, offset_x, offset_y)
    \o HsvLoop(hsv_contours, rows, cols, offset_x, offset_y)

\* the pixels _find_most_colorful_pixel scores: those it does not skip as
\* white or gray
Coloured(pixels) == {p \in pixels : ~is_white_or_gray(p.color)}

(***************************************************************************)
(* Calls of the detection layers on bounded inputs                         *)
(***************************************************************************)
\* most reports of OpenCV handed to one call of the marker layer
MaxReports == 2

\* side of the region the layers scan
LayerRoi == 4

\* sampled colours: white, a light gray, a gray at avg = 180 (not neutral),
\* a pink within 20 of its avg, red
SampleColours ==
    {<<255, 255, 255>>, <<200, 200, 200>>, <<180, 180, 180>>, <<210, 175, 192>>,
     <<220, 20, 20>>}

\* one report: a Hough circle, a contour of a binarisation or a contour of a
\* hue mask, centred inside the region or on the column right of it
Reports ==
    LET at == {<<1, 2>>, <<LayerRoi, 2>>}
    IN  {[kind |-> "circle", cx |-> c[1], cy |-> c[2], color |-> col, dark |-> d] :
            c \in at, col \in SampleColours, d \in BOOLEAN}
        \cup {[kind |-> k, cx |-> c[1], cy |-> c[2], color |-> col, area |-> a,
               shape |-> "square"] :
                 k \in {"contour", "hsv"}, c \in at, col \in SampleColours,
                 a \in {15, 30}}

OfKind(reports, kind) == SelectSeq(reports, LAMBDA c : c.kind = kind)

\* the pixels of a region for the curve layer: every pixel of one row has one
\* of the sampled colours and a score on either side of the threshold
RowPixels(w) ==
    {{[x |-> x, y |-> 0, color |-> paint[x][1], score |-> paint[x][2]] : x \in 0..(w - 1)} :
        paint \in [0..(w - 1) -> SampleColours \X {5, 40}]}

LayerInputs(max_reports) ==
    Pending("detect_large_markers",
            {[reports |-> r] : r \in SeqsUpTo(Reports, max_reports)})
    \cup Pending("detect_curves", {[grid_size |-> g, pixels |-> px] :
                                      g \in 1..2, px \in RowPixels(2)})

\* self._detect_large_markers(roi, roi_gray, x1, y1)
DetectLargeMarkersCall ==
    /\ op = "none"
    /\ arg.fn = "detect_large_markers"
    /\ op' = "detect_large_markers"
    /\ res' = detect_large_markers(LayerRoi, LayerRoi,
                                   OfKind(arg.in.reports, "circle"),
                                   OfKind(arg.in.reports, "contour"),
                                   OfKind(arg.in.reports, "hsv"),
                                   PosLow(ImgW), PosLow(ImgH))
    /\ UNCHANGED <<arg, extractor_vars>>

\* self._detect_curves_grid(roi, x1, y1, grid_size) on a region of one row
DetectCurvesCall ==
    /\ op = "none"
    /\ arg.fn = "detect_curves"
    /\ op' = "detect_curves"
    /\ res' = detect_curves_grid(1, 2, PosLow(ImgW), PosLow(ImgH), arg.in.grid_size,
                                 Coloured(arg.in.pixels))
    /\ UNCHANGED <<arg, extractor_vars>>

InitLayers ==
    /\ ExtractorUnused
    /\ op = "none"
    /\ arg \in LayerInputs(MaxReports)
    /\ res = None

NextLayers == DetectLargeMarkersCall \/ DetectCurvesCall

SpecLayers == InitLayers /\ [][NextLayers]_vars

(***************************************************************************)
(* Claims about the detection layers (checked under SpecLayers)            *)
(***************************************************************************)
LayerReturned == op \in {"detect_large_markers", "detect_curves"}

\* C24: no candidate emitted by the marker layer (circle detection,
\* multi-threshold contours, hue-range contours) or by the curve layer
\* carries a colour for which _is_white_or_gray holds.
C24_NoNeutralCandidate ==
    LayerReturned => \A i \in DOMAIN res : ~is_white_or_gray(res[i].color)

\* the circle, the binarisation contours and the curve grid never emit a
\* neutral colour
C24_TestedStrategiesSkipNeutral ==
    LayerReturned =>
        \A i \in DOMAIN res :
            res[i].marker_type # "point" => ~is_white_or_gray(res[i].color)


(***************************************************************************)
(* marker_detector.py: MarkerDetector, the detector of GraphExtractor      *)
(***************************************************************************)
\* _is_neutral_color: all channels > 240, or avg > 200 with every channel
\* within 15 of avg (compared after scaling by 3)
is_neutral_color(rgb) ==
    LET r == rgb[1]
        g == rgb[2]
        b == rgb[3]
        total == r + g + b
    IN  \/ r > 240 /\ g > 240 /\ b > 240
        \/ /\ total > 3 * 200
           /\ Max3(Abs(3 * r - total), Abs(3 * g - total), Abs(3 * b - total)) < 3 * 15

\* Python's None as a return value and as a dict key, written as a string so
\* that it can stand next to the colour names
NoValue == "None"

\* MarkerDetector._get_color_key: an if/elif chain whose seventh and eighth
\* branch return only inside a nested if
MarkerDetector_get_color_key(rgb) ==
    LET r == rgb[1]
        g == rgb[2]
        b == rgb[3]
        max_val == Max3(r, g, b)
    IN  IF r > 170 /\ g < 100 /\ b < 100 THEN "Red"
        ELSE IF r < 100 /\ g < 100 /\ b > 170 THEN "Blue"
        ELSE IF r < 100 /\ g > 170 /\ b < 100 THEN "Green"
        ELSE IF r < 80 /\ g < 80 /\ b < 80 THEN "Black"
        ELSE IF r > 170 /\ g > 170 /\ b < 100 THEN "Yellow"
        ELSE IF r > 120 /\ g < 100 /\ b > 120 THEN "Purple"
        ELSE IF 80 <= r /\ r <= 180 /\ 80 <= g /\ g <= 180 /\ 80 <= b /\ b <= 180
             THEN IF Max3(Abs(r - g), Abs(g - b), Abs(r - b)) < 30 THEN "Black"
                  ELSE NoValue
        ELSE IF r > 150 /\ g < 180 /\ b < 180
             THEN IF r > g /\ r > b THEN "Red" ELSE NoValue
        ELSE IF max_val = r /\ r > 150 THEN "Red"
        ELSE IF max_val = b /\ b > 150 THEN "Blue"
        ELSE IF max_val = g /\ g > 150 THEN "Green"
        ELSE "Black"

\* MarkerDetector._group_by_color: appends to self.data_points, a
\* defaultdict(list) created once in __init__; normalisation and mapping are
\* the same code as in MarkerDetectorHybrid
RECURSIVE MarkerDetector_group_by_color(_, _, _, _, _)
MarkerDetector_group_by_color(stored, markers, f, x_calib, y_calib) ==
    IF markers = <<>> THEN stored
    ELSE LET m == Head(markers)
             color_key == MarkerDetector_get_color_key(m.color)
             pt == data_point(m, f, x_calib, y_calib)
             next == IF color_key \in DOMAIN stored
                     THEN [stored EXCEPT ![color_key] = Append(@, pt)]
                     ELSE stored @@ (color_key :> <<pt>>)
         IN  MarkerDetector_group_by_color(next, Tail(markers), f, x_calib, y_calib)

\* the candidates of the four layers of MarkerDetector.detect_all: every
\* layer keeps a detection inside the region whose colour is not neutral
MarkerDetector_candidates(image, x1, y1, cols, rows) ==
    SelectSeq(InsideRoi(image.markers \o image.curves, x1, y1, cols, rows),
              LAMBDA p : ~is_neutral_color(p.color))

\* MarkerDetector.detect_all: [returned, data_points] after the call on an
\* instance whose self.data_points is stored; {} is returned for an invalid
\* frame or a region under 10 px, self.data_points itself otherwise
MarkerDetector_detect_all(stored, image, f, w, h, x_calib, y_calib) ==
    LET x1 == f.top_left[1]
        y1 == f.top_left[2]
        x2 == f.bottom_right[1]
        y2 == f.bottom_right[2]
        rows == SliceLen(y1, y2, h)
        cols == SliceLen(x1, x2, w)
    IN  IF x2 <= x1 \/ y2 <= y1 \/ rows * cols = 0 \/ rows < 10 \/ cols < 10
        THEN [returned |-> <<>>, data_points |-> stored]
        ELSE LET grouped == MarkerDetector_group_by_color(
                                stored, MarkerDetector_candidates(image, x1, y1, cols, rows),
                                f, x_calib, y_calib)
             IN  [returned |-> grouped, data_points |-> grouped]

(***************************************************************************)
(* Calls on one MarkerDetector instance                                    *)
(***************************************************************************)
\* most points self.data_points may hold when detect_all is called again
MaxStored == 4

\* detections in the roomy frame: red, a green-gray and an olive that the
\* classifier has no name for, white, a blue curve sample, a red one outside
DefaultCatalogue ==
    LET left == RoomyFrame.top_left[1]
        top == RoomyFrame.top_left[2]
    IN  {Point(left + 10, top + 15, <<220, 20, 20>>, "circle"),
         Point(left + 20, top + 15, <<100, 150, 100>>, "square"),
         Point(left + 30, top + 15, <<160, 175, 50>>, "hollow"),
         Point(left + 25, top + 25, <<255, 255, 255>>, "x"),
         Point(left + 12, top + 30, <<20, 20, 220>>, "curve"),
         Point(left - 10, top + 15, <<220, 20, 20>>, "circle")}

\* the sum of len(points) over the series of a dict
RECURSIVE TotalPoints(_)
TotalPoints(series) ==
    IF DOMAIN series = {} THEN 0
    ELSE LET k == CHOOSE key \in DOMAIN series : TRUE
         IN  Len(series[k])
             + TotalPoints([key \in DOMAIN series \ {k} |-> series[key]])

DefaultInputs(max_markers) ==
    Pending("detect_all",
            {[frame |-> f,
              image |-> [lines |-> <<>>, markers |-> m, curves |-> <<>>],
              x_calib |-> xc,
              y_calib |-> DefaultCalibration] :
                f \in DetectFrames, m \in SeqsUpTo(DefaultCatalogue, max_markers),
                xc \in XCalibrations})
    \cup Pending("get_color_key",
                 {[rgb |-> c] : c \in ChannelValues \X ChannelValues \X ChannelValues})

\* marker_det = MarkerDetector(img, frame): self.data_points is empty
InitDefault ==
    /\ img = None
    /\ frame = None
    /\ x_calibration = None
    /\ y_calibration = None
    /\ data_points = <<>>
    /\ pc = "idle"
    /\ stages = <<>>
    /\ separated = <<>>
    /\ last_call = "none"
    /\ op = "none"
    /\ arg \in DefaultInputs(MaxMarkers)
    /\ res = None

\* marker_det.detect_all(x_calib, y_calib), the first time or again on the
\* same instance with the same calibrations
MarkerDetectorDetectAll ==
    /\ arg.fn = "detect_all"
    /\ TotalPoints(data_points) < MaxStored
    /\ LET a == arg.in
           out == MarkerDetector_detect_all(data_points, a.image, a.frame, ImgW, ImgH,
                                            a.x_calib, a.y_calib)
       IN  /\ res' = out.returned
           /\ data_points' = out.data_points
    /\ op' = "detect_all"
    /\ last_call' = IF op = "detect_all" THEN "detect_all_again" ELSE "detect_all"
    /\ UNCHANGED <<arg, img, frame, x_calibration, y_calibration, pc, stages, separated>>

\* self._get_color_key(marker.color)
MarkerDetectorGetColorKey ==
    /\ op = "none"
    /\ arg.fn = "get_color_key"
    /\ op' = "get_color_key"
    /\ res' = MarkerDetector_get_color_key(arg.in.rgb)
    /\ UNCHANGED <<arg, extractor_vars>>

NextDefault == MarkerDetectorDetectAll \/ MarkerDetectorGetColorKey

SpecDefault == InitDefault /\ [][NextDefault]_vars

(***************************************************************************)
(* Claims about MarkerDetector (checked under SpecDefault)                 *)
(***************************************************************************)
DefaultColorNames == {"Red", "Blue", "Green", "Black", "Yellow", "Purple"}

\* C27: MarkerDetector._get_color_key returns a canonical colour name for
\* every RGB triple with channels 0..255 and never ends without a value, so
\* detect_all returns no series keyed by None.
C27_DefaultColorKeyTotal ==
    /\ op = "get_color_key" => res \in DefaultColorNames
    /\ op = "detect_all" => DOMAIN res \subseteq DefaultColorNames

\* C28: a second detect_all on the same MarkerDetector instance with the same
\* calibrations returns what the first call returned: the same series with
\* the same points, nothing accumulated.
C28_DetectAllRepeatable ==
    [][(op = "detect_all" /\ op' = "detect_all") => res' = res]_vars


(***************************************************************************)
(* Claims about _group_by_color (checked under Spec)                       *)
(***************************************************************************)
\* C30: _group_by_color places every deduplicated candidate into exactly one
\* series: the series hold as many points as there are candidates, each
\* series as many as there are candidates of its colour and kind, a
\* '<Colour>_line' series holds only 'curve' points and a '<Colour>_points'
\* series holds none.
C30_EveryCandidateInOneSeries ==
    (pc = "idle" /\ last_call = "process_returned") =>
        /\ TotalPoints(data_points) = Len(separated)
        /\ \A key \in DOMAIN data_points :
              /\ Len(data_points[key])
                    = Len(SelectSeq(separated, LAMBDA m : series_key(m) = key))
              /\ \A i \in DOMAIN data_points[key] :
                    (key[2] = "line") <=> (data_points[key][i].type = "curve")
              /\ key[2] \in {"line", "points"}

\* process() grouped markers and curve samples into a '_points' and a '_line'
\* series
C30_Witness ==
    /\ pc = "idle"
    /\ last_call = "process_returned"
    /\ Len(separated) >= 2
    /\ \E k1, k2 \in DOMAIN data_points : k1[2] = "line" /\ k2[2] = "points"

====
